---------------------------- MODULE Spec2Model ----------------------------
(***************************************************************************)
(* Ultimate tic-tac-toe (tictactoe_extreme): the game state engine of      *)
(* src/generic (Board, SubBoard, check_matrix) as a state machine, and the *)
(* storage backends of src/data_provider (CacheProvider, RedisProvider)    *)
(* with the callers, subscribers and forwarding tasks around them.         *)
(*                                                                         *)
(* Coordinates are pairs <<row, column>> of zero-based naturals, as in the *)
(* source.  A Field is <<"Vacant">>, <<"Disabled">> or <<"Occupied", p>>;  *)
(* a GameState is <<"Won", p>>, <<"Draw">> or <<"InProgress", p>>.         *)
(***************************************************************************)
EXTENDS Naturals, Integers, Sequences, FiniteSets, TLC

VARIABLES
    board,      \* the Board: [data, moves, game_id]
    result,     \* the value returned by the last insert_move ("None" before the first call)
    matrix,     \* the 3x3 grid handed to check_matrix
    next_player,\* the next_player argument handed to check_matrix
    state       \* the GameState check_matrix returned ("None" before it was called)

VARIABLES
    provider,     \* the backend DataProviderFactory::create built: "Cache" or "Redis"
    hash_map,     \* CacheProvider.hash_map: game id -> GameData
    channels,     \* CacheProvider.channels: game id -> Vec of Senders (indices of watch)
    hash_map_lock,\* the caller holding the Mutex of hash_map, or "free"
    channels_lock,\* the caller holding the Mutex of channels, or "free"
    poisoned,     \* the Mutexes a panic has poisoned
    redis,        \* the keys of the Redis server: key -> JSON document
    tasks,        \* the forwarding tasks spawned by RedisProvider::subscribe_to_game
    watch,        \* the tokio watch channels, in order of creation
    pc,           \* where each caller is inside the call it is in ("idle" between calls)
    local,        \* the local variables of the call each caller is in
    ret,          \* the call that returned last and the value it returned
    created,      \* the game ids for which a create_game returned Ok
    appended,     \* per game created, the moves add_move has appended, in order
    appends,      \* the number of moves appended so far
    writers       \* the callers whose add_move has appended a move

VARIABLES
    sync,         \* the caller of sync_board: its position in the call and its locals
    conn          \* the connections the WebSocketServer accepted, in order of arrival

boardVars == <<board, result, matrix, next_player, state>>

cacheVars == <<hash_map, channels, hash_map_lock, channels_lock, poisoned>>

redisVars == <<redis, tasks>>

providerVars ==
    <<provider, cacheVars, redisVars, watch, pc, local, ret, created, appended, appends,
      writers>>

clientVars == <<sync, conn>>

vars == <<boardVars, providerVars, clientVars>>

-----------------------------------------------------------------------------
(* Bounds of the exploration *)

\* coordinates offered to insert_move range over 0..MaxCoord in each axis
MaxCoord == 9

\* number of accepted moves a play may deviate from the scripted games
MaxFree == 0

\* number of moves the callers of a backend append in all
MaxMoves == 2

\* number of watch channels subscribe_to_game creates in all
MaxChannels == 1

\* number of moves the owner of a Board plays on it before a sync_board
MaxLocal == 2

\* number of moves a game stored remotely holds at most
MaxRemote == 2

\* number of connections the WebSocketServer accepts in all
MaxConns == 1

\* number of frames the client of a connection sends in all
MaxMsgs == 2

\* coordinates of the moves played on the synced Board and appended remotely:
\* (1,1) and (4,4) as in test_data_storage, and (3,3); after each of the three
\* the next player may be sent to sub-board (1,1) or (0,0)
SyncCoords == {<<1, 1>>, <<3, 3>>, <<4, 4>>}

-----------------------------------------------------------------------------
(* generic/player.rs, generic/field.rs, generic/gamestate.rs, generic/move.rs *)

Player == {"X", "O"}

other(p) == IF p = "X" THEN "O" ELSE "X"

Vacant == <<"Vacant">>
Disabled == <<"Disabled">>
Occupied(p) == <<"Occupied", p>>
Field == {Vacant, Disabled} \cup {Occupied(p) : p \in Player}

Won(p) == <<"Won", p>>
Draw == <<"Draw">>
InProgress(p) == <<"InProgress", p>>

is_in_progress(s) == s[1] = "InProgress"

Move(c, p) == [coordinates |-> c, player |-> p]

InvalidMove ==
    {"FieldOccupied", "SubBoardNotActive", "GameEnded", "OutOfBounds", "NotYourTurn"}

\* Board::SIZE and SubBoard::SIZE are both (3, 3)
SIZE == 3

\* the index set of an Array2 of shape (SIZE, SIZE)
Index == (0 .. SIZE - 1) \X (0 .. SIZE - 1)

Coord == (0 .. MaxCoord) \X (0 .. MaxCoord)

-----------------------------------------------------------------------------
(* generic/boards/matrix_checker.rs *)

\* register as it would be if a later winner replaced an earlier one
register_last(winner, player) ==
    IF player # "None" THEN player ELSE winner

\* WinnerRegisterer::register: the first registered winner is kept
register(winner, player) ==
    IF winner = "None" /\ player # "None" THEN player ELSE winner

get_winner_in_row(list) ==
    IF Len(list) = 0 THEN "None"
    ELSE LET potential_winner == list[1]
         IN  IF \A i \in 1 .. Len(list) : list[i] = potential_winner
             THEN IF potential_winner[1] = "Occupied" THEN potential_winner[2] ELSE "None"
             ELSE "None"

\* the index lists of the lines in the order check_matrix scans them:
\* diag(), the diag() of the row-reversed slice, rows(), columns()
Diag == [i \in 1 .. SIZE |-> <<i - 1, i - 1>>]
AntiDiag == [i \in 1 .. SIZE |-> <<SIZE - i, i - 1>>]
Rows == [r \in 1 .. SIZE |-> [i \in 1 .. SIZE |-> <<r - 1, i - 1>>]]
Columns == [c \in 1 .. SIZE |-> [i \in 1 .. SIZE |-> <<i - 1, c - 1>>]]
ScanOrder == <<Diag, AntiDiag>> \o Rows \o Columns

\* the one-dimensional view of matrix m along a line
view(m, line) == [i \in 1 .. Len(line) |-> m[line[i]]]

\* the successive winner_registerer.register(get_winner_in_row(..)) calls
RECURSIVE register_lines(_, _, _)
register_lines(winner, m, i) ==
    IF i > Len(ScanOrder) THEN winner
    ELSE register_lines(register(winner, get_winner_in_row(view(m, ScanOrder[i]))), m, i + 1)

check_matrix(m, np) ==
    LET winner == register_lines("None", m, 1)
    IN  IF winner # "None" THEN Won(winner)
        ELSE IF \A idx \in Index : m[idx] # Vacant THEN Draw
        ELSE InProgress(np)

-----------------------------------------------------------------------------
(* generic/boards/sub_board.rs *)

SubBoard_new == [data |-> [idx \in Index |-> Vacant], state |-> Vacant]

\* SubBoard::get_state that never sees a sub-board decided
SubBoard_get_state_in_progress(sub_board, np) == InProgress(np)

SubBoard_get_state(sub_board, np) == check_matrix(sub_board.data, np)

-----------------------------------------------------------------------------
(* generic/boards/board.rs *)

new_with_id(id) ==
    [data |-> [idx \in Index |-> SubBoard_new], moves |-> <<>>, game_id |-> id]

\* get_next_player without the other(): the last mover moves again
get_next_player_same(b) ==
    IF Len(b.moves) = 0 THEN "X" ELSE b.moves[Len(b.moves)].player

get_next_player(b) ==
    IF Len(b.moves) = 0 THEN "X" ELSE other(b.moves[Len(b.moves)].player)

\* Array2 values are built once: comparing the function makes TLC materialise
\* it instead of re-evaluating an element at every index operation
Array2(f) == IF f = f THEN f ELSE f

\* get_abstracted_board with a drawn sub-board left Vacant
get_abstracted_board_draw_vacant(b) ==
    LET np == get_next_player(b)
    IN  Array2([idx \in Index |->
            LET s == SubBoard_get_state(b.data[idx], np)
            IN  IF s[1] = "InProgress" THEN Vacant
                ELSE IF s[1] = "Draw" THEN Vacant
                ELSE Occupied(s[2])])

get_abstracted_board(b) ==
    LET np == get_next_player(b)
    IN  Array2([idx \in Index |->
            LET s == SubBoard_get_state(b.data[idx], np)
            IN  IF s[1] = "InProgress" THEN Vacant
                ELSE IF s[1] = "Draw" THEN Disabled
                ELSE Occupied(s[2])])

\* get_state handing the last mover to check_matrix as next_player
get_state_stale_player(b) ==
    check_matrix(get_abstracted_board(b),
                 IF Len(b.moves) = 0 THEN "X" ELSE b.moves[Len(b.moves)].player)

\* get_state that never sees the game decided
get_state_in_progress(b) == InProgress(get_next_player(b))

get_state(b) == check_matrix(get_abstracted_board(b), get_next_player(b))

\* <<subboard index, field index>> of a cell of the full board
get_subboard_for_move(c) ==
    LET subboard_row == c[1] \div SIZE
        subboard_column == c[2] \div SIZE
        field_row == c[1] - (subboard_row * SIZE)
        field_column == c[2] - (subboard_column * SIZE)
    IN  << <<subboard_row, subboard_column>>, <<field_row, field_column>> >>

\* the cells of the full board in row-major order (cartesian_product of the two ranges)
full_size ==
    [k \in 1 .. (SIZE * SIZE) * (SIZE * SIZE) |->
        << (k - 1) \div (SIZE * SIZE), (k - 1) % (SIZE * SIZE) >>]

\* get_allowed_moves that never limits the next move to one sub-board
get_allowed_moves_unconstrained(b) ==
    LET current_states == get_abstracted_board(b)
        keep(c) ==
            LET sf == get_subboard_for_move(c)
            IN  /\ current_states[sf[1]] = Vacant
                /\ b.data[sf[1]].data[sf[2]] = Vacant
    IN  SelectSeq(full_size, keep)

\* get_allowed_moves that keeps the limit when the target sub-board is decided
get_allowed_moves_no_lift(b) ==
    LET current_states == get_abstracted_board(b)
        limiting_subboard ==
            IF Len(b.moves) = 0 THEN "None"
            ELSE get_subboard_for_move(b.moves[Len(b.moves)].coordinates)[2]
        keep(c) ==
            LET sf == get_subboard_for_move(c)
            IN  /\ ~ (limiting_subboard # "None" /\ sf[1] # limiting_subboard)
                /\ current_states[sf[1]] = Vacant
                /\ b.data[sf[1]].data[sf[2]] = Vacant
    IN  SelectSeq(full_size, keep)

\* get_allowed_moves that offers the vacant cells of decided sub-boards too
get_allowed_moves_decided(b) ==
    LET current_states == get_abstracted_board(b)
        limiting_subboard ==
            IF Len(b.moves) = 0 THEN "None"
            ELSE LET field_index ==
                         get_subboard_for_move(b.moves[Len(b.moves)].coordinates)[2]
                 IN  IF current_states[field_index] = Vacant THEN field_index ELSE "None"
        keep(c) ==
            LET sf == get_subboard_for_move(c)
            IN  /\ ~ (limiting_subboard # "None" /\ sf[1] # limiting_subboard)
                /\ b.data[sf[1]].data[sf[2]] = Vacant
    IN  SelectSeq(full_size, keep)

get_allowed_moves(b) ==
    LET current_states == get_abstracted_board(b)
        limiting_subboard ==
            IF Len(b.moves) = 0 THEN "None"
            ELSE LET field_index ==
                         get_subboard_for_move(b.moves[Len(b.moves)].coordinates)[2]
                 IN  IF current_states[field_index] = Vacant THEN field_index ELSE "None"
        keep(c) ==
            LET sf == get_subboard_for_move(c)
            IN  /\ ~ (limiting_subboard # "None" /\ sf[1] # limiting_subboard)
                /\ current_states[sf[1]] = Vacant
                /\ b.data[sf[1]].data[sf[2]] = Vacant
    IN  SelectSeq(full_size, keep)

contains(seq, x) == \E i \in 1 .. Len(seq) : seq[i] = x

MoveArgs == [coordinates : Coord, player : Player]

\* validate_move with the bounds check ahead of the GameEnded check
validate_move_bounds_first(b) ==
    LET self_next_player == get_next_player(b)
        self_state == get_state(b)
        self_allowed_moves == get_allowed_moves(b)
    IN  [new_move \in MoveArgs |->
            IF self_next_player # new_move.player THEN "NotYourTurn"
            ELSE IF \/ new_move.coordinates[1] >= SIZE * SIZE
                    \/ new_move.coordinates[2] >= SIZE * SIZE THEN "OutOfBounds"
            ELSE IF ~ is_in_progress(self_state) THEN "GameEnded"
            ELSE LET sf == get_subboard_for_move(new_move.coordinates)
                 IN  IF sf[1] \notin Index \/ sf[2] \notin Index THEN "Panic"
                     ELSE IF b.data[sf[1]].data[sf[2]] # Vacant THEN "FieldOccupied"
                     ELSE IF ~ contains(self_allowed_moves, new_move.coordinates)
                          THEN "SubBoardNotActive"
                     ELSE "Ok"]

\* validate_move with the SubBoardNotActive check ahead of the FieldOccupied check
validate_move_active_first(b) ==
    LET self_next_player == get_next_player(b)
        self_state == get_state(b)
        self_allowed_moves == get_allowed_moves(b)
    IN  [new_move \in MoveArgs |->
            IF self_next_player # new_move.player THEN "NotYourTurn"
            ELSE IF ~ is_in_progress(self_state) THEN "GameEnded"
            ELSE IF \/ new_move.coordinates[1] >= SIZE * SIZE
                    \/ new_move.coordinates[2] >= SIZE * SIZE THEN "OutOfBounds"
            ELSE LET sf == get_subboard_for_move(new_move.coordinates)
                 IN  IF sf[1] \notin Index \/ sf[2] \notin Index THEN "Panic"
                     ELSE IF ~ contains(self_allowed_moves, new_move.coordinates)
                          THEN "SubBoardNotActive"
                     ELSE IF b.data[sf[1]].data[sf[2]] # Vacant THEN "FieldOccupied"
                     ELSE "Ok"]

\* validate_move with > in place of >= in the bounds check
validate_move_bounds_exclusive(b) ==
    LET self_next_player == get_next_player(b)
        self_state == get_state(b)
        self_allowed_moves == get_allowed_moves(b)
    IN  [new_move \in MoveArgs |->
            IF self_next_player # new_move.player THEN "NotYourTurn"
            ELSE IF ~ is_in_progress(self_state) THEN "GameEnded"
            ELSE IF \/ new_move.coordinates[1] > SIZE * SIZE
                    \/ new_move.coordinates[2] > SIZE * SIZE THEN "OutOfBounds"
            ELSE LET sf == get_subboard_for_move(new_move.coordinates)
                 IN  IF sf[1] \notin Index \/ sf[2] \notin Index THEN "Panic"
                     ELSE IF b.data[sf[1]].data[sf[2]] # Vacant THEN "FieldOccupied"
                     ELSE IF ~ contains(self_allowed_moves, new_move.coordinates)
                          THEN "SubBoardNotActive"
                     ELSE "Ok"]

\* validate_move without the SubBoardNotActive check
validate_move_any_subboard(b) ==
    LET self_next_player == get_next_player(b)
        self_state == get_state(b)
    IN  [new_move \in MoveArgs |->
            IF self_next_player # new_move.player THEN "NotYourTurn"
            ELSE IF ~ is_in_progress(self_state) THEN "GameEnded"
            ELSE IF \/ new_move.coordinates[1] >= SIZE * SIZE
                    \/ new_move.coordinates[2] >= SIZE * SIZE THEN "OutOfBounds"
            ELSE LET sf == get_subboard_for_move(new_move.coordinates)
                 IN  IF sf[1] \notin Index \/ sf[2] \notin Index THEN "Panic"
                     ELSE IF b.data[sf[1]].data[sf[2]] # Vacant THEN "FieldOccupied"
                     ELSE "Ok"]

\* "Ok" or the InvalidMove returned; "Panic" is the panic of an ndarray index
\* outside the shape.  validate_move(b)[m] is b.validate_move(m).
validate_move(b) ==
    LET self_next_player == get_next_player(b)
        self_state == get_state(b)
        self_allowed_moves == get_allowed_moves(b)
    IN  [new_move \in MoveArgs |->
            IF self_next_player # new_move.player THEN "NotYourTurn"
            ELSE IF ~ is_in_progress(self_state) THEN "GameEnded"
            ELSE IF \/ new_move.coordinates[1] >= SIZE * SIZE
                    \/ new_move.coordinates[2] >= SIZE * SIZE THEN "OutOfBounds"
            ELSE LET sf == get_subboard_for_move(new_move.coordinates)
                 IN  IF sf[1] \notin Index \/ sf[2] \notin Index THEN "Panic"
                     ELSE IF b.data[sf[1]].data[sf[2]] # Vacant THEN "FieldOccupied"
                     ELSE IF ~ contains(self_allowed_moves, new_move.coordinates)
                          THEN "SubBoardNotActive"
                     ELSE "Ok"]

\* render_move writing the cell into sub-board (0, 0) whatever the move
render_move_first_subboard(b, m) ==
    LET sf == get_subboard_for_move(m.coordinates)
    IN  IF sf[1] \notin Index \/ sf[2] \notin Index
        THEN [board |-> b, result |-> "Panic"]
        ELSE [board |-> [b EXCEPT !.data[<<0, 0>>].data[sf[2]] = Occupied(m.player)],
              result |-> "Ok"]

render_move(b, m) ==
    LET sf == get_subboard_for_move(m.coordinates)
    IN  IF sf[1] \notin Index \/ sf[2] \notin Index
        THEN [board |-> b, result |-> "Panic"]
        ELSE [board |-> [b EXCEPT !.data[sf[1]].data[sf[2]] = Occupied(m.player)],
              result |-> "Ok"]

\* insert_move pushing the move before it validates it
insert_move_push_first(b) ==
    LET validate == validate_move(b)
    IN  [coordinates \in Coord, player \in Player |->
            LET new_move == Move(coordinates, player)
                pushed == [b EXCEPT !.moves = Append(@, new_move)]
                v == validate[new_move]
            IN  IF v # "Ok" THEN [board |-> pushed, result |-> v]
                ELSE render_move(pushed, new_move)]

\* [board, result]: the Board after the call and the value returned.
\* insert_move(b)[coordinates, player] is b.insert_move(coordinates, player).
insert_move(b) ==
    LET validate == validate_move(b)
    IN  [coordinates \in Coord, player \in Player |->
            LET new_move == Move(coordinates, player)
                v == validate[new_move]
            IN  IF v # "Ok" THEN [board |-> b, result |-> v]
                ELSE render_move([b EXCEPT !.moves = Append(@, new_move)], new_move)]

\* impl Into<GameData> for Board
into(b) == [moves |-> b.moves, game_id |-> b.game_id]

\* the loop of Board::from; .expect panics on the first rejected move
RECURSIVE from_loop(_, _, _)
from_loop(b, moves, i) ==
    IF i > Len(moves) THEN [board |-> b, result |-> "Ok"]
    ELSE LET r == insert_move(b)[moves[i].coordinates, moves[i].player]
         IN  IF r.result # "Ok" THEN [board |-> r.board, result |-> "Panic"]
             ELSE from_loop(r.board, moves, i + 1)

\* Board::from starting from Board::new() instead of new_with_id(game_id)
from_new_id(game_data) == from_loop(new_with_id("fresh"), game_data.moves, 1)

\* impl From<GameData> for Board; [board, result]
from(game_data) == from_loop(new_with_id(game_data.game_id), game_data.moves, 1)

-----------------------------------------------------------------------------
(* Plays *)

Mv(r, c, p) == Move(<<r, c>>, p)

\* test::get_sample_game
get_sample_game ==
    << Mv(1,1,"X"), Mv(4,4,"O"), Mv(3,4,"X"), Mv(1,4,"O"), Mv(3,5,"X"), Mv(1,7,"O"),
       Mv(3,3,"X"), Mv(0,0,"O"), Mv(0,2,"X"), Mv(0,6,"O"), Mv(2,0,"X"), Mv(8,2,"O"),
       Mv(6,8,"X"), Mv(2,8,"O"), Mv(7,7,"X"), Mv(2,5,"O"), Mv(8,6,"X") >>

\* a legal play that ends in a Draw, with sub-board (0,0) drawn
draw_game ==
    << Mv(5,3,"X"), Mv(7,1,"O"), Mv(4,3,"X"), Mv(3,2,"O"), Mv(2,6,"X"), Mv(8,1,"O"),
       Mv(6,5,"X"), Mv(1,7,"O"), Mv(3,5,"X"), Mv(0,7,"O"), Mv(0,5,"X"), Mv(2,7,"O"),
       Mv(8,3,"X"), Mv(8,2,"O"), Mv(8,6,"X"), Mv(6,1,"O"), Mv(1,5,"X"), Mv(4,6,"O"),
       Mv(5,1,"X"), Mv(6,4,"O"), Mv(2,5,"X"), Mv(8,8,"O"), Mv(6,6,"X"), Mv(1,0,"O"),
       Mv(3,1,"X"), Mv(1,1,"O"), Mv(4,4,"X"), Mv(5,0,"O"), Mv(5,2,"X"), Mv(7,8,"O"),
       Mv(3,6,"X"), Mv(2,2,"O"), Mv(6,7,"X"), Mv(4,8,"O"), Mv(5,6,"X"), Mv(6,3,"O"),
       Mv(2,1,"X"), Mv(7,4,"O"), Mv(7,6,"X"), Mv(4,1,"O"), Mv(2,0,"X"), Mv(4,7,"O"),
       Mv(7,3,"X"), Mv(8,4,"O"), Mv(1,2,"X"), Mv(0,1,"O"), Mv(0,0,"X"), Mv(0,2,"O") >>

\* a legal play that O wins, with sub-board (2,2) drawn on the way
o_win_game ==
    << Mv(7,5,"X"), Mv(5,8,"O"), Mv(8,7,"X"), Mv(8,3,"O"), Mv(8,2,"X"), Mv(8,6,"O"),
       Mv(7,0,"X"), Mv(3,0,"O"), Mv(0,2,"X"), Mv(1,6,"O"), Mv(4,1,"X"), Mv(4,3,"O"),
       Mv(5,2,"X"), Mv(8,8,"O"), Mv(7,6,"X"), Mv(3,2,"O"), Mv(2,7,"X"), Mv(6,4,"O"),
       Mv(0,3,"X"), Mv(1,1,"O"), Mv(4,5,"X"), Mv(5,6,"O"), Mv(6,0,"X"), Mv(2,2,"O"),
       Mv(6,6,"X"), Mv(1,0,"O"), Mv(5,1,"X"), Mv(6,5,"O"), Mv(2,8,"X"), Mv(7,8,"O"),
       Mv(3,6,"X"), Mv(2,1,"O"), Mv(7,4,"X"), Mv(5,3,"O"), Mv(7,1,"X"), Mv(3,5,"O"),
       Mv(2,6,"X"), Mv(1,4,"O"), Mv(3,4,"X"), Mv(2,5,"O"), Mv(7,7,"X"), Mv(4,4,"O"),
       Mv(4,0,"X"), Mv(3,1,"O"), Mv(0,4,"X"), Mv(2,3,"O"), Mv(0,5,"X"), Mv(8,4,"O"),
       Mv(8,5,"X"), Mv(6,7,"O"), Mv(2,0,"X"), Mv(3,8,"O"), Mv(6,8,"X"), Mv(4,7,"O") >>

Scripts == {get_sample_game, draw_game, o_win_game}

RECURSIVE CommonPrefix(_, _, _)
CommonPrefix(s, t, k) ==
    IF k < Len(s) /\ k < Len(t) /\ s[k + 1] = t[k + 1]
    THEN CommonPrefix(s, t, k + 1) ELSE k

Max(S) == CHOOSE x \in S : \A y \in S : y <= x

\* the number of moves of ms that leave every scripted play
Deviation(ms) == Len(ms) - Max({CommonPrefix(ms, s, 0) : s \in Scripts})

-----------------------------------------------------------------------------
(* data_provider: what both storage backends share *)

\* the Uuid values callers pass as game ids
GameIds == {"g1", "g2"}

None == "None"

\* the move handed to the i-th add_move that appends: (1,1)X, (2,2)X as in
\* test_data_storage, (3,3)X, ..; no Board accepts the second after the first
StoreMove(i) == Mv(i, i, "X")

\* threads holding a clone of the provider
Callers == {"a", "b"}

Ok(v) == <<"Ok", v>>
Err(e) == <<"Err", e>>
is_ok(r) == r[1] = "Ok"

\* the call did not return: its thread panicked
Panic == <<"Panic">>

GameData_new_with_id(id) == [moves |-> <<>>, game_id |-> id]

\* Uuid::new_v4(): a random Uuid, taken to differ from every key in use
new_v4(used) == GameIds \ used

\* HashMap::new
HashMap_new == [k \in {} |-> None]

\* HashMap: insert a value under a key
HashMap_insert(map, k, v) ==
    [x \in DOMAIN map \cup {k} |-> IF x = k THEN v ELSE map[x]]

\* tokio::sync::watch::channel(init): one slot and the mark that the receiver
\* has not seen its value yet.  read is <<the value the receiver read last>>,
\* since the number of moves appended to the game when subscribe_to_game
\* returned the Receiver; the program holds neither.
watch_channel(init) ==
    [value |-> init, changed |-> FALSE, rx |-> "alive", read |-> <<>>, since |-> 0]

\* a watch channel that keeps the unread value instead of the new one
watch_send_keep_unread(ch, v) ==
    IF ch.rx = "dropped" THEN [ch |-> ch, result |-> "Err"]
    ELSE IF ch.changed THEN [ch |-> ch, result |-> "Ok"]
    ELSE [ch |-> [ch EXCEPT !.value = v, !.changed = TRUE], result |-> "Ok"]

\* watch::Sender::send: an error when no receiver is left, else the slot is
\* replaced; the sender never waits
watch_send(ch, v) ==
    IF ch.rx = "dropped" THEN [ch |-> ch, result |-> "Err"]
    ELSE [ch |-> [ch EXCEPT !.value = v, !.changed = TRUE], result |-> "Ok"]

\* the caller returns: ret is the call and the value it returned
Return(t, op, arg, value) == ret' = [op |-> op, arg |-> arg, value |-> value]

-----------------------------------------------------------------------------
(* data_provider/providers/cache_provider.rs *)

\* CacheProvider::get_game_data
CacheProvider_get_game_data(game_id) ==
    IF "hash_map" \in poisoned THEN Err("LockError")
    ELSE IF game_id \in DOMAIN hash_map THEN Ok(hash_map[game_id])
    ELSE Err("KeyNotFound")

\* CacheProvider::game_exists
CacheProvider_game_exists(game_id) ==
    IF "hash_map" \in poisoned THEN Err("LockError")
    ELSE Ok(game_id \in DOMAIN hash_map)

\* CacheProvider::get_games; the order of the keys of a HashMap is arbitrary
CacheProvider_get_games ==
    IF "hash_map" \in poisoned THEN Err("LockError")
    ELSE Ok(DOMAIN hash_map)

\* create_game storing a fresh GameData whether or not the key is taken
CacheProvider_create_game_overwrite(map, game_id) ==
    [hash_map |-> HashMap_insert(map, game_id, GameData_new_with_id(game_id)),
     value |-> Ok(game_id)]

\* CacheProvider::create_game below the lock: [hash_map, value]
CacheProvider_create_game(map, game_id) ==
    IF game_id \in DOMAIN map
    THEN [hash_map |-> map, value |-> Err("GameExists")]
    ELSE [hash_map |-> HashMap_insert(map, game_id, GameData_new_with_id(game_id)),
          value |-> Ok(game_id)]

\* a caller calls create_game(Some(id)) or create_game(None)
CacheCreateGame(t) ==
    /\ provider = "Cache"
    /\ pc[t] = "idle"
    /\ hash_map_lock = "free"
    /\ \E arg \in GameIds \cup {None} :
         IF "hash_map" \in poisoned
         THEN /\ Return(t, "create_game", arg, Err("LockError"))
              /\ UNCHANGED <<hash_map, created, appended>>
         ELSE \E game_id \in (IF arg = None THEN new_v4(DOMAIN hash_map) ELSE {arg}) :
                LET r == CacheProvider_create_game(hash_map, game_id)
                IN  /\ hash_map' = r.hash_map
                    /\ Return(t, "create_game", arg, r.value)
                    /\ created' = IF is_ok(r.value) THEN created \cup {game_id} ELSE created
                    /\ appended' = IF is_ok(r.value) /\ game_id \notin DOMAIN appended
                                   THEN HashMap_insert(appended, game_id, <<>>)
                                   ELSE appended
    /\ UNCHANGED <<provider, channels, watch, hash_map_lock, channels_lock, poisoned,
                   pc, local, appends, writers, redisVars, boardVars, clientVars>>

\* add_move up to new_game_data: lock hash_map, push, clone.  The guard of
\* hash_map lives to the end of add_move.
CacheAddMoveLock(t) ==
    /\ provider = "Cache"
    /\ pc[t] = "idle"
    /\ hash_map_lock = "free"
    /\ \E game_id \in GameIds, new_move \in {StoreMove(appends + 1)} :
         IF "hash_map" \in poisoned
         THEN /\ Return(t, "add_move", game_id, Err("LockError"))
              /\ UNCHANGED <<hash_map, hash_map_lock, pc, local, appended, appends, writers>>
         ELSE IF game_id \notin DOMAIN hash_map
         THEN /\ Return(t, "add_move", game_id, Err("KeyNotFound"))
              /\ UNCHANGED <<hash_map, hash_map_lock, pc, local, appended, appends, writers>>
         ELSE /\ appends < MaxMoves
              /\ hash_map' = [hash_map EXCEPT ![game_id].moves = Append(@, new_move)]
              /\ appended' = [appended EXCEPT ![game_id] = Append(@, new_move)]
              /\ appends' = appends + 1
              /\ writers' = writers \cup {t}
              /\ hash_map_lock' = t
              /\ pc' = [pc EXCEPT ![t] = "add_move_channels"]
              /\ local' = [local EXCEPT ![t] =
                             [game_id |-> game_id, new_move |-> new_move,
                              new_game_data |-> hash_map'[game_id]]]
              /\ UNCHANGED ret
    /\ UNCHANGED <<provider, channels, channels_lock, watch, poisoned, created, redisVars,
                   boardVars, clientVars>>

\* channels.iter().for_each(|channel| channel.send(..).unwrap()): the senders
\* in Vec order, up to the first whose send fails; [watch, result]
RECURSIVE for_each_send(_, _, _, _)
for_each_send(w, senders, i, new_game_data) ==
    IF i > Len(senders) THEN [watch |-> w, result |-> "Ok"]
    ELSE LET r == watch_send(w[senders[i]], new_game_data)
         IN  IF r.result = "Err" THEN [watch |-> w, result |-> "Panic"]
             ELSE for_each_send([w EXCEPT ![senders[i]] = r.ch], senders, i + 1,
                                new_game_data)

\* the rest of add_move: lock channels, send the snapshot to every sender of
\* the game, drop both guards.  A panic below the guards poisons both mutexes.
CacheAddMoveSend(t) ==
    /\ provider = "Cache"
    /\ pc[t] = "add_move_channels"
    /\ LET game_id == local[t].game_id
           senders == IF game_id \in DOMAIN channels THEN channels[game_id] ELSE <<>>
           r == for_each_send(watch, senders, 1, local[t].new_game_data)
       IN  IF "channels" \in poisoned
           THEN /\ Return(t, "add_move", game_id, Err("LockError"))
                /\ UNCHANGED <<watch, poisoned>>
           ELSE /\ watch' = r.watch
                /\ IF r.result = "Panic"
                   THEN /\ poisoned' = {"hash_map", "channels"}
                        /\ Return(t, "add_move", game_id, Panic)
                   ELSE /\ Return(t, "add_move", game_id, Ok("()"))
                        /\ UNCHANGED poisoned
    /\ hash_map_lock' = "free"
    /\ pc' = [pc EXCEPT ![t] = "idle"]
    /\ local' = [local EXCEPT ![t] = None]
    /\ UNCHANGED <<provider, hash_map, channels, channels_lock, created,
                   appended, appends, writers, redisVars, boardVars, clientVars>>

\* subscribe_to_game up to the channel: get_game_data(game_id)? and
\* watch::channel(..)
CacheSubscribeGet(t) ==
    /\ provider = "Cache"
    /\ pc[t] = "idle"
    /\ hash_map_lock = "free"
    /\ \E game_id \in GameIds :
         LET r == CacheProvider_get_game_data(game_id)
         IN  IF ~ is_ok(r)
             THEN /\ Return(t, "subscribe_to_game", game_id, r)
                  /\ UNCHANGED <<watch, pc, local>>
             ELSE /\ Len(watch) < MaxChannels
                  /\ watch' = Append(watch, watch_channel(r[2]))
                  /\ pc' = [pc EXCEPT ![t] = "subscribe_channels"]
                  /\ local' = [local EXCEPT ![t] =
                                 [game_id |-> game_id, tx |-> Len(watch) + 1]]
                  /\ UNCHANGED ret
    /\ UNCHANGED <<provider, hash_map, channels, hash_map_lock, channels_lock, poisoned,
                   created, appended, appends, writers, redisVars, boardVars, clientVars>>

\* the rest of subscribe_to_game: lock channels, push tx, return rx
CacheSubscribeRegister(t) ==
    /\ provider = "Cache"
    /\ pc[t] = "subscribe_channels"
    /\ LET game_id == local[t].game_id
           tx == local[t].tx
       IN  IF "channels" \in poisoned
           THEN /\ Return(t, "subscribe_to_game", game_id, Err("LockError"))
                /\ watch' = [watch EXCEPT ![tx].rx = "dropped"]
                /\ UNCHANGED channels
           ELSE /\ channels' =
                     IF game_id \in DOMAIN channels
                     THEN [channels EXCEPT ![game_id] = Append(@, tx)]
                     ELSE HashMap_insert(channels, game_id, <<tx>>)
                /\ watch' = [watch EXCEPT ![tx].rx = "held",
                                          ![tx].since = Len(appended[game_id])]
                /\ Return(t, "subscribe_to_game", game_id, Ok("rx"))
    /\ pc' = [pc EXCEPT ![t] = "idle"]
    /\ local' = [local EXCEPT ![t] = None]
    /\ UNCHANGED <<provider, hash_map, hash_map_lock, channels_lock, poisoned,
                   created, appended, appends, writers, redisVars, boardVars, clientVars>>

\* a subscriber reads its Receiver once the value has changed
\* (changed() then borrow_and_update())
ReceiverRead(c) ==
    /\ watch[c].rx = "held"
    /\ watch[c].changed
    /\ watch' = [watch EXCEPT ![c].changed = FALSE, ![c].read = <<watch[c].value>>]
    /\ UNCHANGED <<provider, pc, local, ret, created,
                   appended, appends, writers, cacheVars, redisVars, boardVars, clientVars>>

\* a subscriber drops its Receiver
ReceiverDrop(c) ==
    /\ watch[c].rx = "held"
    /\ watch' = [watch EXCEPT ![c].rx = "dropped"]
    /\ UNCHANGED <<provider, pc, local, ret, created,
                   appended, appends, writers, cacheVars, redisVars, boardVars, clientVars>>

-----------------------------------------------------------------------------
(* data_provider/providers/redis_provider.rs; the Redis server is reachable *)

\* serde_json::to_string(&Move): {"coordinates":[r,c],"player":"X"}
to_string_move(m) == <<"{", m.coordinates[1], m.coordinates[2], m.player, "}">>

\* serde_json::from_str::<Move>
from_str_move(s) == Move(<<s[2], s[3]>>, s[4])

\* serde_json::to_string(&GameData): {"moves":[..],"game_id":".."}
to_string(game_data) ==
    [json_moves |-> [i \in 1 .. Len(game_data.moves) |->
                        to_string_move(game_data.moves[i])],
     json_game_id |-> game_data.game_id]

\* serde_json::from_str::<GameData>
from_str(s) ==
    [moves |-> [i \in 1 .. Len(s.json_moves) |-> from_str_move(s.json_moves[i])],
     game_id |-> s.json_game_id]

\* JSON.SET key $ value: the document under key is replaced or created
JSON_SET(keys, key, value) ==
    [keys |-> HashMap_insert(keys, key, value), reply |-> Ok("OK")]

\* JSON.ARRAPPEND key $.moves value replacing the array by the one value
JSON_ARRAPPEND_replace(keys, key, value) ==
    IF key \notin DOMAIN keys THEN [keys |-> keys, reply |-> Err("Query")]
    ELSE [keys |-> [keys EXCEPT ![key].json_moves = <<value>>], reply |-> Ok(1)]

\* JSON.ARRAPPEND key $.moves value: an error reply when the key is absent
JSON_ARRAPPEND(keys, key, value) ==
    IF key \notin DOMAIN keys THEN [keys |-> keys, reply |-> Err("Query")]
    ELSE [keys |-> [keys EXCEPT ![key].json_moves = Append(@, value)],
          reply |-> Ok(Len(keys[key].json_moves) + 1)]

\* JSON.ARRLEN key $.moves
JSON_ARRLEN(keys, key) ==
    IF key \notin DOMAIN keys THEN Err("Query") ELSE Ok(Len(keys[key].json_moves))

\* JSON.GET key
JSON_GET(keys, key) ==
    IF key \notin DOMAIN keys THEN Err("Query") ELSE Ok(keys[key])

\* RedisProvider::get_game_data
RedisProvider_get_game_data(game_id) ==
    LET remote_move_count == JSON_ARRLEN(redis, game_id)
    IN  IF ~ is_ok(remote_move_count) THEN remote_move_count
        ELSE IF remote_move_count[2] = 0 THEN Ok(GameData_new_with_id(game_id))
        ELSE Ok(from_str(JSON_GET(redis, game_id)[2]))

\* RedisProvider::game_exists: EXISTS key
RedisProvider_game_exists(game_id) == Ok(game_id \in DOMAIN redis)

\* RedisProvider::get_games: KEYS *
RedisProvider_get_games == Ok(DOMAIN redis)

\* a caller calls create_game(Some(id)) or create_game(None): one JSON.SET
RedisCreateGame(t) ==
    /\ provider = "Redis"
    /\ pc[t] = "idle"
    /\ \E arg \in GameIds \cup {None} :
         \E uuid \in (IF arg = None THEN new_v4(DOMAIN redis) ELSE {arg}) :
           LET game == GameData_new_with_id(uuid)
               r == JSON_SET(redis, uuid, to_string(game))
           IN  /\ redis' = r.keys
               /\ Return(t, "create_game", arg,
                         IF is_ok(r.reply) THEN Ok(uuid) ELSE r.reply)
               /\ created' = IF is_ok(r.reply) THEN created \cup {uuid} ELSE created
               /\ appended' = IF is_ok(r.reply) /\ uuid \notin DOMAIN appended
                              THEN HashMap_insert(appended, uuid, <<>>)
                              ELSE appended
    /\ UNCHANGED <<provider, watch, pc, local, tasks, appends, writers, cacheVars, boardVars, clientVars>>

\* add_move up to the reply of JSON.ARRAPPEND
RedisAddMoveAppend(t) ==
    /\ provider = "Redis"
    /\ pc[t] = "idle"
    /\ \E game_id \in GameIds, new_move \in {StoreMove(appends + 1)} :
         LET r == JSON_ARRAPPEND(redis, game_id, to_string_move(new_move))
         IN  IF ~ is_ok(r.reply)
             THEN /\ Return(t, "add_move", game_id, r.reply)
                  /\ UNCHANGED <<redis, pc, local, appended, appends, writers>>
             ELSE /\ appends < MaxMoves
                  /\ redis' = r.keys
                  /\ appended' = [appended EXCEPT ![game_id] = Append(@, new_move)]
                  /\ appends' = appends + 1
                  /\ writers' = writers \cup {t}
                  /\ pc' = [pc EXCEPT ![t] = "add_move_get_game_data"]
                  /\ local' = [local EXCEPT ![t] =
                                 [game_id |-> game_id, new_move |-> new_move,
                                  game_data |-> None]]
                  /\ UNCHANGED ret
    /\ UNCHANGED <<provider, watch, created, tasks, cacheVars, boardVars, clientVars>>

\* add_move in self.get_game_data(game_id)?.  JSON.ARRLEN and JSON.GET are
\* two commands, but no key is ever deleted and a document without moves
\* deserializes to GameData::new_with_id(game_id), so the value is the one
\* get_game_data reads in one step: at JSON.ARRLEN when it replies 0, at
\* JSON.GET otherwise.
RedisAddMoveGetGameData(t) ==
    /\ provider = "Redis"
    /\ pc[t] = "add_move_get_game_data"
    /\ LET game_id == local[t].game_id
           game_data == RedisProvider_get_game_data(game_id)
       IN  IF ~ is_ok(game_data)
           THEN /\ Return(t, "add_move", game_id, game_data)
                /\ pc' = [pc EXCEPT ![t] = "idle"]
                /\ local' = [local EXCEPT ![t] = None]
           ELSE /\ pc' = [pc EXCEPT ![t] = "add_move_publish"]
                /\ local' = [local EXCEPT ![t].game_data = game_data[2]]
                /\ UNCHANGED ret
    /\ UNCHANGED <<provider, watch, redis, created,
                   appended, appends, writers, tasks, cacheVars, boardVars, clientVars>>

\* PUBLISH channel message: the message is queued for every connection
\* subscribed to the channel at this moment and for no other
PUBLISH(ts, channel, message) ==
    [k \in DOMAIN ts |->
        IF ts[k].pc = "listening" /\ ts[k].game_id = channel
        THEN [ts[k] EXCEPT !.stream = Append(@, message)]
        ELSE ts[k]]

\* the rest of add_move: PUBLISH the serialized game data, Ok(())
RedisAddMovePublish(t) ==
    /\ provider = "Redis"
    /\ pc[t] = "add_move_publish"
    /\ tasks' = PUBLISH(tasks, local[t].game_id, to_string(local[t].game_data))
    /\ Return(t, "add_move", local[t].game_id, Ok("()"))
    /\ pc' = [pc EXCEPT ![t] = "idle"]
    /\ local' = [local EXCEPT ![t] = None]
    /\ UNCHANGED <<provider, watch, redis, created,
                   appended, appends, writers, cacheVars, boardVars, clientVars>>

\* subscribe_to_game: watch::channel(GameData::new_with_id(game_id)),
\* tokio::spawn of the forwarding task, Ok(rx)
RedisSubscribe(t) ==
    /\ provider = "Redis"
    /\ pc[t] = "idle"
    /\ Len(watch) < MaxChannels
    /\ \E game_id \in GameIds :
         /\ watch' = Append(watch, [watch_channel(GameData_new_with_id(game_id))
                                      EXCEPT !.rx = "held",
                                             !.since = IF game_id \in DOMAIN appended
                                                       THEN Len(appended[game_id])
                                                       ELSE 0])
         /\ tasks' = Append(tasks, [game_id |-> game_id, tx |-> Len(watch) + 1,
                                    pc |-> "spawned", stream |-> <<>>])
         /\ Return(t, "subscribe_to_game", game_id, Ok("rx"))
    /\ UNCHANGED <<provider, redis, pc, local,
                   created, appended, appends, writers, cacheVars, boardVars, clientVars>>

\* the spawned task: pubsub_connect and connection.subscribe(game_id)
TaskSubscribe(k) ==
    /\ provider = "Redis"
    /\ tasks[k].pc = "spawned"
    /\ tasks' = [tasks EXCEPT ![k].pc = "listening"]
    /\ UNCHANGED <<provider, watch, redis, pc, local,
                   ret, created, appended, appends, writers, cacheVars, boardVars, clientVars>>

\* the spawned task: one turn of while let Some(Ok(msg)) = stream.next().await;
\* tx.send(game_data).unwrap() panics the task when the Receiver is gone
TaskForward(k) ==
    /\ provider = "Redis"
    /\ tasks[k].pc = "listening"
    /\ tasks[k].stream # <<>>
    /\ LET game_data == from_str(Head(tasks[k].stream))
           r == watch_send(watch[tasks[k].tx], game_data)
       IN  IF r.result = "Err"
           THEN /\ tasks' = [tasks EXCEPT ![k].pc = "panicked", ![k].stream = <<>>]
                /\ UNCHANGED watch
           ELSE /\ tasks' = [tasks EXCEPT ![k].stream = Tail(@)]
                /\ watch' = [watch EXCEPT ![tasks[k].tx] = r.ch]
    /\ UNCHANGED <<provider, redis, pc, local, ret,
                   created, appended, appends, writers, cacheVars, boardVars, clientVars>>

-----------------------------------------------------------------------------
(* The state machine of a backend and its callers *)

\* the caller of sync_board between two calls; before and others are not
\* held by the program: the two histories when the last call started (remote
\* is <<>> when the key was absent, <<moves>> otherwise) and whether another
\* client wrote to the game during the call
SyncIdle(before, others) ==
    [pc |-> "idle", moves_to_upload |-> <<>>, before |-> before, others |-> others]

\* no caller of sync_board and no connection yet
ClientNew ==
    /\ sync = SyncIdle([local |-> <<>>, remote |-> <<>>], FALSE)
    /\ conn = <<>>

\* CacheProvider::new / RedisProvider::new against an empty Redis server, no
\* caller inside a call
ProviderNew ==
    /\ hash_map = HashMap_new
    /\ channels = HashMap_new
    /\ hash_map_lock = "free"
    /\ channels_lock = "free"
    /\ poisoned = {}
    /\ redis = HashMap_new
    /\ tasks = <<>>
    /\ watch = <<>>
    /\ pc = [t \in Callers |-> "idle"]
    /\ local = [t \in Callers |-> None]
    /\ ret = [op |-> None, arg |-> None, value |-> <<None>>]
    /\ created = {}
    /\ appended = HashMap_new
    /\ appends = 0
    /\ writers = {}

\* DataProviderFactory::create::<T>(args) for either backend
InitProvider ==
    /\ provider \in {"Cache", "Redis"}
    /\ ProviderNew
    /\ ClientNew
    /\ board = new_with_id("g1")
    /\ result = "None"
    /\ matrix = [idx \in Index |-> Vacant]
    /\ next_player = "X"
    /\ state = "None"

NextProvider ==
    \/ \E t \in Callers :
          \/ CacheCreateGame(t)
          \/ CacheAddMoveLock(t)
          \/ CacheAddMoveSend(t)
          \/ CacheSubscribeGet(t)
          \/ CacheSubscribeRegister(t)
          \/ RedisCreateGame(t)
          \/ RedisAddMoveAppend(t)
          \/ RedisAddMoveGetGameData(t)
          \/ RedisAddMovePublish(t)
          \/ RedisSubscribe(t)
    \/ \E c \in 1 .. Len(watch) : ReceiverRead(c) \/ ReceiverDrop(c)
    \/ \E k \in 1 .. Len(tasks) : TaskSubscribe(k) \/ TaskForward(k)

SpecProvider == InitProvider /\ [][NextProvider]_vars

-----------------------------------------------------------------------------
(* CacheProvider at the grain of its two Mutexes: a call is a step up to each
   lock() it makes, and a caller waits at lock() while another holds the Mutex *)

\* the calls of DataProvider that CacheProvider implements behind its locks
CacheCalls ==
    {"add_move", "create_game", "game_exists", "get_game_data", "get_games",
     "subscribe_to_game"}

\* a MutexGuard that is forgotten instead of dropped: the Mutex stays locked
MutexGuard_forget(t) == t

\* a MutexGuard goes out of scope: the Mutex is free again
MutexGuard_drop(t) == "free"

\* a Result whose Ok value is no string, as the value a call returned: the
\* type stands before the value
Typed(type, r) == IF is_ok(r) THEN <<"Ok", type, r[2]>> ELSE r

\* the call is over: it returned value, or its thread unwound in a panic
CacheReturn(t, call, value) ==
    /\ Return(t, call.op, call.arg, value)
    /\ pc' = [pc EXCEPT ![t] = "idle"]
    /\ local' = [local EXCEPT ![t] = None]

\* a caller calls one of CacheCalls and comes to hash_map.lock(), the first
\* thing each of them does to the provider; which call it is shows when
\* lock() returns
CacheCall(t) ==
    /\ provider = "Cache"
    /\ pc[t] = "idle"
    /\ pc' = [pc EXCEPT ![t] = "lock_hash_map"]
    /\ UNCHANGED <<provider, watch, local, ret, created, appended, appends, writers,
                   cacheVars, redisVars, boardVars, clientVars>>

\* the calls a caller may be in: [op, arg, game_id]; create_game has
\* unwrapped its game_id or drawn a new one
CacheCallsOf(map) ==
    {[op |-> op, arg |-> arg, game_id |-> arg] : op \in CacheCalls \ {"get_games"},
                                                 arg \in GameIds}
    \cup {[op |-> "get_games", arg |-> None, game_id |-> None]}
    \cup {[op |-> "create_game", arg |-> None, game_id |-> id] : id \in new_v4(DOMAIN map)}

\* hash_map.lock() returns to the caller waiting for it, and the call runs on
\* to its channels.lock() or to its end.  Only add_move keeps the guard of
\* hash_map beyond this step; subscribe_to_game has dropped it when
\* get_game_data returned.
CacheLockHashMap(t) ==
    /\ provider = "Cache"
    /\ pc[t] = "lock_hash_map"
    /\ hash_map_lock = "free"
    /\ \E call \in CacheCallsOf(hash_map) :
         \/ /\ "hash_map" \in poisoned
            /\ CacheReturn(t, call, Err("LockError"))
            /\ UNCHANGED <<hash_map, hash_map_lock, watch, created, appended, appends, writers>>
         \/ /\ "hash_map" \notin poisoned
            /\ call.op = "create_game"
            /\ \E r \in {CacheProvider_create_game(hash_map, call.game_id)} :
                 /\ hash_map' = r.hash_map
                 /\ CacheReturn(t, call, r.value)
                 /\ created' = IF is_ok(r.value) THEN created \cup {call.game_id} ELSE created
                 /\ appended' = IF is_ok(r.value) /\ call.game_id \notin DOMAIN appended
                                THEN HashMap_insert(appended, call.game_id, <<>>)
                                ELSE appended
            /\ UNCHANGED <<hash_map_lock, watch, appends, writers>>
         \/ /\ "hash_map" \notin poisoned
            /\ call.op \in {"game_exists", "get_game_data", "get_games"}
            /\ CacheReturn(t, call,
                           CASE call.op = "game_exists" ->
                                  Typed("bool", CacheProvider_game_exists(call.game_id))
                             [] call.op = "get_game_data" ->
                                  Typed("GameData", CacheProvider_get_game_data(call.game_id))
                             [] call.op = "get_games" ->
                                  Typed("Vec<Uuid>", CacheProvider_get_games))
            /\ UNCHANGED <<hash_map, hash_map_lock, watch, created, appended, appends, writers>>
         \/ /\ "hash_map" \notin poisoned
            /\ call.op = "add_move"
            /\ IF call.game_id \notin DOMAIN hash_map
               THEN /\ CacheReturn(t, call, Err("KeyNotFound"))
                    /\ UNCHANGED <<hash_map, hash_map_lock, appended, appends, writers>>
               ELSE \E new_move \in {StoreMove(appends + 1)} :
                      /\ appends < MaxMoves
                      /\ hash_map' = [hash_map EXCEPT ![call.game_id].moves =
                                                         Append(@, new_move)]
                      /\ appended' = [appended EXCEPT ![call.game_id] = Append(@, new_move)]
                      /\ appends' = appends + 1
                      /\ writers' = writers \cup {t}
                      /\ hash_map_lock' = t
                      /\ pc' = [pc EXCEPT ![t] = "lock_channels"]
                      /\ local' = [local EXCEPT ![t] =
                                     [op |-> call.op, arg |-> call.arg,
                                      game_id |-> call.game_id, new_move |-> new_move,
                                      new_game_data |-> hash_map'[call.game_id]]]
                      /\ UNCHANGED ret
            /\ UNCHANGED <<watch, created>>
         \/ /\ "hash_map" \notin poisoned
            /\ call.op = "subscribe_to_game"
            /\ \E r \in {CacheProvider_get_game_data(call.game_id)} :
                 IF ~ is_ok(r)
                 THEN /\ CacheReturn(t, call, r)
                      /\ UNCHANGED watch
                 ELSE /\ Len(watch) < MaxChannels
                      /\ watch' = Append(watch, watch_channel(r[2]))
                      /\ pc' = [pc EXCEPT ![t] = "lock_channels"]
                      /\ local' = [local EXCEPT ![t] =
                                     [op |-> call.op, arg |-> call.arg,
                                      game_id |-> call.game_id, tx |-> Len(watch) + 1]]
                      /\ UNCHANGED ret
            /\ UNCHANGED <<hash_map, hash_map_lock, created, appended, appends, writers>>
    /\ UNCHANGED <<provider, channels, channels_lock, poisoned, redisVars, boardVars,
                   clientVars>>

\* channels.lock() returns to the caller waiting for it: the guard, or the
\* LockError of a poisoned Mutex, on which the call returns and drops what it
\* holds (add_move its guard of hash_map, subscribe_to_game its channel)
CacheLockChannels(t) ==
    /\ provider = "Cache"
    /\ pc[t] = "lock_channels"
    /\ channels_lock = "free"
    /\ IF "channels" \in poisoned
       THEN /\ CacheReturn(t, local[t], Err("LockError"))
            /\ hash_map_lock' = IF hash_map_lock = t THEN MutexGuard_drop(t)
                                ELSE hash_map_lock
            /\ watch' = IF local[t].op = "subscribe_to_game"
                        THEN [watch EXCEPT ![local[t].tx].rx = "dropped"]
                        ELSE watch
            /\ UNCHANGED channels_lock
       ELSE /\ channels_lock' = t
            /\ pc' = [pc EXCEPT ![t] = "channels_locked"]
            /\ UNCHANGED <<hash_map_lock, watch, local, ret>>
    /\ UNCHANGED <<provider, hash_map, channels, poisoned, created, appended, appends,
                   writers, redisVars, boardVars, clientVars>>

\* the call below its guard of channels, to its end: add_move sends the
\* snapshot to every sender of the game and drops both guards (a panic in
\* send poisons both Mutexes as the guards unwind); subscribe_to_game pushes
\* tx, drops its guard and returns rx
CacheChannelsLocked(t) ==
    /\ provider = "Cache"
    /\ pc[t] = "channels_locked"
    /\ \E call \in {local[t]} :
         \/ /\ call.op = "add_move"
            /\ \E r \in {for_each_send(watch,
                                       IF call.game_id \in DOMAIN channels
                                       THEN channels[call.game_id] ELSE <<>>,
                                       1, call.new_game_data)} :
                 /\ watch' = r.watch
                 /\ IF r.result = "Panic"
                    THEN /\ poisoned' = {"hash_map", "channels"}
                         /\ CacheReturn(t, call, Panic)
                    ELSE /\ CacheReturn(t, call, Ok("()"))
                         /\ UNCHANGED poisoned
            /\ hash_map_lock' = MutexGuard_drop(t)
            /\ UNCHANGED channels
         \/ /\ call.op = "subscribe_to_game"
            /\ channels' =
                 IF call.game_id \in DOMAIN channels
                 THEN [channels EXCEPT ![call.game_id] = Append(@, call.tx)]
                 ELSE HashMap_insert(channels, call.game_id, <<call.tx>>)
            /\ watch' = [watch EXCEPT ![call.tx].rx = "held",
                                      ![call.tx].since = Len(appended[call.game_id])]
            /\ CacheReturn(t, call, Ok("rx"))
            /\ UNCHANGED <<hash_map_lock, poisoned>>
    /\ channels_lock' = MutexGuard_drop(t)
    /\ UNCHANGED <<provider, hash_map, created, appended, appends, writers,
                   redisVars, boardVars, clientVars>>

\* the steps of a caller that is inside a call
CacheRun(t) == CacheLockHashMap(t) \/ CacheLockChannels(t) \/ CacheChannelsLocked(t)

\* DataProviderFactory::create::<CacheProvider>(args)
InitLocks ==
    /\ provider = "Cache"
    /\ ProviderNew
    /\ ClientNew
    /\ board = new_with_id("g1")
    /\ result = "None"
    /\ matrix = [idx \in Index |-> Vacant]
    /\ next_player = "X"
    /\ state = "None"

NextLocks ==
    \/ \E t \in Callers :
          \/ CacheCall(t)
          \/ CacheLockHashMap(t)
          \/ CacheLockChannels(t)
          \/ CacheChannelsLocked(t)
    \/ \E c \in 1 .. Len(watch) : ReceiverDrop(c)

\* every thread inside a call keeps being scheduled: it takes the step it can
\* take, unless that step stops being possible
SpecLocks ==
    InitLocks /\ [][NextLocks]_vars /\ \A t \in Callers : WF_vars(CacheRun(t))

-----------------------------------------------------------------------------
(* sync_board: a caller holding a Board and a backend reconcile the two *)

\* the id of the Board the caller holds
SyncGame == "g1"

\* the loop of sync_board with no move queued for the upload
RECURSIVE sync_loop_no_upload(_, _, _, _, _)
sync_loop_no_upload(local_moves, remote_moves, moves_to_upload, move_index, end) ==
    IF move_index >= end
    THEN [local_moves |-> local_moves, moves_to_upload |-> moves_to_upload]
    ELSE IF move_index >= Len(local_moves)
    THEN sync_loop_no_upload(Append(local_moves, remote_moves[move_index + 1]),
                             remote_moves, moves_to_upload, move_index + 1, end)
    ELSE IF move_index >= Len(remote_moves)
    THEN sync_loop_no_upload(local_moves, remote_moves, moves_to_upload,
                             move_index + 1, end)
    ELSE sync_loop_no_upload([local_moves EXCEPT ![move_index + 1] =
                                 remote_moves[move_index + 1]],
                             remote_moves, moves_to_upload, move_index + 1, end)

\* for move_index in 0..local_moves.len().max(remote_moves.len()): the range
\* is fixed when the loop starts, indices are those of the source (from 0);
\* [local_moves, moves_to_upload]
RECURSIVE sync_loop(_, _, _, _, _)
sync_loop(local_moves, remote_moves, moves_to_upload, move_index, end) ==
    IF move_index >= end
    THEN [local_moves |-> local_moves, moves_to_upload |-> moves_to_upload]
    ELSE IF move_index >= Len(local_moves)
    THEN sync_loop(Append(local_moves, remote_moves[move_index + 1]),
                   remote_moves, moves_to_upload, move_index + 1, end)
    ELSE IF move_index >= Len(remote_moves)
    THEN sync_loop(local_moves, remote_moves,
                   Append(moves_to_upload, local_moves[move_index + 1]),
                   move_index + 1, end)
    ELSE sync_loop([local_moves EXCEPT ![move_index + 1] = remote_moves[move_index + 1]],
                   remote_moves, moves_to_upload, move_index + 1, end)

\* the remote side as sync_board finds it
SyncRemote ==
    IF provider = "Redis" /\ SyncGame \in DOMAIN redis
    THEN <<from_str(redis[SyncGame]).moves>>
    ELSE <<>>

\* sync_board returns value
SyncReturn(value) ==
    /\ ret' = [op |-> "sync_board", arg |-> SyncGame, value |-> value]
    /\ sync' = SyncIdle(sync.before, sync.others)

\* the owner of the Board plays a move the Board accepts (a rejected move
\* leaves the Board as it is)
SyncInsertMove ==
    /\ sync.pc = "idle"
    /\ Len(board.moves) < MaxLocal
    /\ \E self \in {board} :
         \E call \in {insert_move(self)} :
           \E coordinates \in SyncCoords, player \in Player :
             \E r \in {call[coordinates, player]} :
               /\ r.result = "Ok"
               /\ board' = r.board
               /\ result' = r.result
    /\ UNCHANGED <<matrix, next_player, state, providerVars, clientVars>>

\* another client of the Redis server creates the game while there is none,
\* as its own sync_board does: JSON.SET
RemoteCreateGame ==
    /\ provider = "Redis"
    /\ SyncGame \notin DOMAIN redis
    /\ redis' = JSON_SET(redis, SyncGame, to_string(GameData_new_with_id(SyncGame))).keys
    /\ sync' = [sync EXCEPT !.others = @ \/ sync.pc # "idle"]
    /\ UNCHANGED <<provider, watch, pc, local, ret, tasks, created, appended, appends,
                   writers, cacheVars, boardVars, conn>>

\* another client of the Redis server runs add_move(id, move); with no
\* subscriber its JSON.ARRAPPEND is all that changes the server
RemoteAddMove ==
    /\ provider = "Redis"
    /\ SyncRemote # <<>>
    /\ Len(SyncRemote[1]) < MaxRemote
    /\ \E coordinates \in SyncCoords, player \in Player :
         redis' = JSON_ARRAPPEND(redis, SyncGame,
                                 to_string_move(Move(coordinates, player))).keys
    /\ sync' = [sync EXCEPT !.others = @ \/ sync.pc # "idle"]
    /\ UNCHANGED <<provider, watch, pc, local, ret, tasks, created, appended, appends,
                   writers, cacheVars, boardVars, conn>>

\* CacheProvider::sync_board: Ok(()) and nothing else
CacheSyncBoard ==
    /\ provider = "Cache"
    /\ sync.pc = "idle"
    /\ ret' = [op |-> "sync_board", arg |-> SyncGame, value |-> Ok("()")]
    /\ sync' = SyncIdle([local |-> board.moves, remote |-> SyncRemote], FALSE)
    /\ UNCHANGED <<provider, watch, pc, local, tasks, redis, created, appended, appends,
                   writers, cacheVars, boardVars, conn>>

\* RedisProvider::sync_board up to if self.get_game_data(game.game_id).is_err()
RedisSyncBoardExists ==
    /\ provider = "Redis"
    /\ sync.pc = "idle"
    /\ sync' = [SyncIdle([local |-> board.moves, remote |-> SyncRemote], FALSE)
                  EXCEPT !.pc = IF is_ok(RedisProvider_get_game_data(board.game_id))
                                THEN "get_game_data" ELSE "create_game"]
    /\ UNCHANGED <<provider, watch, pc, local, ret, tasks, redis, created, appended,
                   appends, writers, cacheVars, boardVars, conn>>

\* self.create_game(Some(game.game_id))?
RedisSyncBoardCreate ==
    /\ provider = "Redis"
    /\ sync.pc = "create_game"
    /\ LET r == JSON_SET(redis, board.game_id,
                         to_string(GameData_new_with_id(board.game_id)))
       IN  IF is_ok(r.reply)
           THEN /\ redis' = r.keys
                /\ sync' = [sync EXCEPT !.pc = "get_game_data"]
                /\ UNCHANGED ret
           ELSE /\ SyncReturn(r.reply)
                /\ UNCHANGED redis
    /\ UNCHANGED <<provider, watch, pc, local, tasks, created, appended, appends,
                   writers, cacheVars, boardVars, conn>>

\* let remote_game_data = self.get_game_data(game.game_id)?, the comparison,
\* the loop and *game = local_game_data.into(): Board::from panics on a
\* reconciled history that a Board rejects, and the Board is left as it was
RedisSyncBoardMerge ==
    /\ provider = "Redis"
    /\ sync.pc = "get_game_data"
    /\ \E game \in {board} :
         \E remote_game_data \in {RedisProvider_get_game_data(game.game_id)} :
           LET local_game_data == into(game)
           IN  IF ~ is_ok(remote_game_data)
               THEN SyncReturn(remote_game_data) /\ UNCHANGED <<board, result>>
               ELSE IF local_game_data = remote_game_data[2]
               THEN SyncReturn(Ok("()")) /\ UNCHANGED <<board, result>>
               ELSE \E l \in {sync_loop(local_game_data.moves, remote_game_data[2].moves,
                                        <<>>, 0,
                                        Max({Len(local_game_data.moves),
                                             Len(remote_game_data[2].moves)}))} :
                      \E r \in {from([local_game_data EXCEPT !.moves = l.local_moves])} :
                        IF r.result = "Panic"
                        THEN SyncReturn(Panic) /\ UNCHANGED <<board, result>>
                        ELSE /\ board' = r.board
                             /\ UNCHANGED result
                             /\ IF l.moves_to_upload = <<>>
                                THEN SyncReturn(Ok("()"))
                                ELSE /\ sync' = [sync EXCEPT
                                                   !.pc = "upload",
                                                   !.moves_to_upload = l.moves_to_upload]
                                     /\ UNCHANGED ret
    /\ UNCHANGED <<matrix, next_player, state, provider, watch, pc, local, tasks, redis,
                   created, appended, appends, writers, cacheVars, conn>>

\* one turn of for new_move in moves_to_upload: self.add_move(game.game_id,
\* new_move)?; with no subscriber its JSON.ARRAPPEND is all that changes the
\* server, and the key is there, so the rest of add_move cannot fail
RedisSyncBoardUpload ==
    /\ provider = "Redis"
    /\ sync.pc = "upload"
    /\ LET new_move == Head(sync.moves_to_upload)
           r == JSON_ARRAPPEND(redis, board.game_id, to_string_move(new_move))
       IN  IF ~ is_ok(r.reply)
           THEN SyncReturn(r.reply) /\ UNCHANGED redis
           ELSE /\ redis' = r.keys
                /\ IF Tail(sync.moves_to_upload) = <<>>
                   THEN SyncReturn(Ok("()"))
                   ELSE /\ sync' = [sync EXCEPT !.moves_to_upload = Tail(@)]
                        /\ UNCHANGED ret
    /\ UNCHANGED <<provider, watch, pc, local, tasks, created, appended, appends,
                   writers, cacheVars, boardVars, conn>>

\* a backend, and a caller holding a new Board for SyncGame
InitSync ==
    /\ provider \in {"Cache", "Redis"}
    /\ ProviderNew
    /\ ClientNew
    /\ board = new_with_id(SyncGame)
    /\ result = "None"
    /\ matrix = [idx \in Index |-> Vacant]
    /\ next_player = "X"
    /\ state = "None"

NextSync ==
    \/ SyncInsertMove
    \/ RemoteCreateGame
    \/ RemoteAddMove
    \/ CacheSyncBoard
    \/ RedisSyncBoardExists
    \/ RedisSyncBoardCreate
    \/ RedisSyncBoardMerge
    \/ RedisSyncBoardUpload

SpecSync == InitSync /\ [][NextSync]_vars

-----------------------------------------------------------------------------
(* client_management: rest_api/v1.rs and websocket/stream_handler.rs.  No   *)
(* code of the servers calls subscribe_to_game, so the backend they share   *)
(* has no subscriber: add_move sends and publishes to nobody, and what it   *)
(* does to the stored history is one step (one entry mutation under the     *)
(* Mutex, one JSON.ARRAPPEND).                                              *)

\* the moves a client submits: a new Board accepts (1,1)X; (1,1)O is
\* rejected whatever was stored, since X opens and (1,1) is taken after (1,1)X
ServerMoves == {Mv(1, 1, "X"), Mv(1, 1, "O")}

\* the second segment of the request path: a Uuid or a text that is none
PathIds == GameIds \cup {"not-a-uuid"}

\* request paths /<game_uuid> and /<game_uuid>/<role>, split at '/'
Paths ==
    {<<"", id>> : id \in PathIds}
        \cup {<<"", id, role>> : id \in PathIds, role \in {"X", "admin"}}

\* Uuid::parse_str
Uuid_parse_str(s) == IF s \in GameIds THEN Ok(s) ELSE Err("Invalid")

\* Result::unwrap_or
unwrap_or(r, default) == IF is_ok(r) THEN r[2] ELSE default

\* the messages a client sends as text: the two IncommingMessage variants in
\* their serde form and texts that are none of them
Ping == <<"ping">>
MakeMove(player, coordinates) == <<"make_move", player, coordinates>>
Texts ==
    {Ping, <<"pong">>}
        \cup {MakeMove(m.player, m.coordinates) : m \in ServerMoves}

\* the frames a client sends: Message::Text, and a Message::Binary that is
\* no UTF-8, for which into_text fails
Frames == {<<"Text", msg>> : msg \in Texts} \cup {<<"Binary">>}

\* serde_json::from_str::<IncommingMessage>
from_str_message(msg) ==
    IF msg[1] = "ping" /\ Len(msg) = 1 THEN Ok(msg)
    ELSE IF msg[1] = "make_move" /\ Len(msg) = 3 THEN Ok(msg)
    ELSE Err("Syntax")

\* OutgoingMessage::Pong and OutgoingMessage::Error
Pong == <<"pong">>
ErrorMessage(kind, detail) == <<"error", kind, detail>>

\* data_provider.game_exists(game_id)
DataProvider_game_exists(game_id) ==
    IF provider = "Cache" THEN CacheProvider_game_exists(game_id)
    ELSE RedisProvider_game_exists(game_id)

\* data_provider.add_move(game_id, new_move) with no subscriber:
\* [hash_map, redis, value]
DataProvider_add_move(game_id, new_move) ==
    IF provider = "Cache"
    THEN IF "hash_map" \in poisoned
         THEN [hash_map |-> hash_map, redis |-> redis, value |-> Err("LockError")]
         ELSE IF game_id \notin DOMAIN hash_map
         THEN [hash_map |-> hash_map, redis |-> redis, value |-> Err("KeyNotFound")]
         ELSE [hash_map |-> [hash_map EXCEPT ![game_id].moves = Append(@, new_move)],
               redis |-> redis, value |-> Ok("()")]
    ELSE LET r == JSON_ARRAPPEND(redis, game_id, to_string_move(new_move))
         IN  [hash_map |-> hash_map, redis |-> r.keys,
              value |-> IF is_ok(r.reply) THEN Ok("()") ELSE r.reply]

\* data_provider.create_game(None): [hash_map, redis, value]
DataProvider_create_game(uuid) ==
    IF provider = "Cache"
    THEN IF "hash_map" \in poisoned
         THEN [hash_map |-> hash_map, redis |-> redis, value |-> Err("LockError")]
         ELSE LET r == CacheProvider_create_game(hash_map, uuid)
              IN  [hash_map |-> r.hash_map, redis |-> redis, value |-> r.value]
    ELSE LET r == JSON_SET(redis, uuid, to_string(GameData_new_with_id(uuid)))
         IN  [hash_map |-> hash_map, redis |-> r.keys,
              value |-> IF is_ok(r.reply) THEN Ok(uuid) ELSE r.reply]

\* handle_message answering an unparseable text with nothing
handle_message_silent(connected_game, msg) ==
    LET parsed == from_str_message(msg)
    IN  IF ~ is_ok(parsed)
        THEN [hash_map |-> hash_map, redis |-> redis, response |-> <<>>]
        ELSE IF parsed[2][1] = "ping"
        THEN [hash_map |-> hash_map, redis |-> redis, response |-> <<Pong>>]
        ELSE LET r == DataProvider_add_move(connected_game,
                                            Move(parsed[2][3], parsed[2][2]))
             IN  [hash_map |-> r.hash_map, redis |-> r.redis,
                  response |-> IF is_ok(r.value) THEN <<>>
                               ELSE <<ErrorMessage("ErrorMakingMove", r.value[2])>>]

\* StreamHandler::handle_message: [hash_map, redis, response]; response is
\* <<>> for None and <<message>> for Some(message)
handle_message(connected_game, msg) ==
    LET parsed == from_str_message(msg)
    IN  IF ~ is_ok(parsed)
        THEN [hash_map |-> hash_map, redis |-> redis,
              response |-> <<ErrorMessage("CouldNotSerialize", msg)>>]
        ELSE IF parsed[2][1] = "ping"
        THEN [hash_map |-> hash_map, redis |-> redis, response |-> <<Pong>>]
        ELSE LET r == DataProvider_add_move(connected_game,
                                            Move(parsed[2][3], parsed[2][2]))
             IN  [hash_map |-> r.hash_map, redis |-> r.redis,
                  response |-> IF is_ok(r.value) THEN <<>>
                               ELSE <<ErrorMessage("ErrorMakingMove", r.value[2])>>]

\* from_path without the check that the game exists
from_path_unchecked(path, game_exists) ==
    IF Len(path) < 2 THEN [value |-> Err("InvalidUuid"), close |-> FALSE]
    ELSE LET game_id == Uuid_parse_str(path[2])
         IN  IF ~ is_ok(game_id) THEN [value |-> Err("InvalidUuid"), close |-> FALSE]
             ELSE IF Len(path) < 3 \/ path[3] = "watch"
             THEN [value |-> Ok([client_type |-> "Spectator",
                                 connected_game |-> game_id[2]]), close |-> FALSE]
             ELSE IF path[3] \in Player
             THEN [value |-> Ok([client_type |-> path[3],
                                 connected_game |-> game_id[2]]), close |-> FALSE]
             ELSE [value |-> Err("InvalidRole"), close |-> FALSE]

\* StreamHandler::from_path: [value, close]; close tells whether the stream
\* was closed by stream.close(None); game_exists is the backend's answer by id
from_path(path, game_exists) ==
    IF Len(path) < 2 THEN [value |-> Err("InvalidUuid"), close |-> FALSE]
    ELSE LET game_id == Uuid_parse_str(path[2])
         IN  IF ~ is_ok(game_id) THEN [value |-> Err("InvalidUuid"), close |-> FALSE]
             ELSE IF ~ unwrap_or(game_exists[game_id[2]], FALSE)
             THEN [value |-> Err("GameNotFound"), close |-> TRUE]
             ELSE IF Len(path) < 3 \/ path[3] = "watch"
             THEN [value |-> Ok([client_type |-> "Spectator",
                                 connected_game |-> game_id[2]]), close |-> FALSE]
             ELSE IF path[3] \in Player
             THEN [value |-> Ok([client_type |-> path[3],
                                 connected_game |-> game_id[2]]), close |-> FALSE]
             ELSE [value |-> Err("InvalidRole"), close |-> FALSE]

\* the moves stored for a game, none when the game is not stored
MovesOf(game_id) ==
    IF provider = "Cache"
    THEN IF game_id \in DOMAIN hash_map THEN hash_map[game_id].moves ELSE <<>>
    ELSE IF game_id \in DOMAIN redis THEN from_str(redis[game_id]).moves ELSE <<>>

\* rest_api/v1.rs create_game: PUT /api/v1/games
RestCreateGame ==
    /\ \E uuid \in new_v4(IF provider = "Cache" THEN DOMAIN hash_map ELSE DOMAIN redis) :
         LET r == DataProvider_create_game(uuid)
         IN  /\ hash_map' = r.hash_map
             /\ redis' = r.redis
             /\ ret' = [op |-> "PUT games", arg |-> None, value |-> r.value]
    /\ UNCHANGED <<provider, channels, hash_map_lock, channels_lock, poisoned, tasks, watch, pc, local,
                   created, appended, appends, writers, boardVars, clientVars>>

\* rest_api/v1.rs add_move: POST /api/v1/games/{game_id}/moves with a Move
\* as body
RestAddMove ==
    /\ appends < MaxMoves
    /\ \E game_id \in GameIds, new_move \in ServerMoves :
         LET r == DataProvider_add_move(game_id, new_move)
         IN  /\ hash_map' = r.hash_map
             /\ redis' = r.redis
             /\ appends' = IF is_ok(r.value) THEN appends + 1 ELSE appends
             /\ ret' = [op |-> "POST moves", arg |-> None,
                        value |-> IF is_ok(r.value) THEN Ok("ok") ELSE r.value]
    /\ UNCHANGED <<provider, channels, hash_map_lock, channels_lock, poisoned, tasks, watch, pc, local,
                   created, appended, writers, boardVars, clientVars>>

\* WebSocketServer::start accepts a connection and spawns handle_stream:
\* accept_connection and from_path.  A game_exists of the networked backend
\* may fail for want of a connection.  since and exists are not held by the
\* program: the number of moves of the game when the connection was accepted,
\* and what game_exists answered ("unasked" when the path held no Uuid).
AcceptConnection ==
    /\ Len(conn) < MaxConns
    /\ \E path \in Paths, failing \in (IF provider = "Redis" THEN BOOLEAN ELSE {FALSE}) :
         LET game_exists == [id \in GameIds |->
                               IF failing THEN Err("Connection")
                               ELSE DataProvider_game_exists(id)]
             client == from_path(path, game_exists)
         IN  conn' = Append(conn,
                 [path |-> path,
                  state |-> IF is_ok(client.value) THEN "open"
                            ELSE IF client.close THEN "closed" ELSE "refused",
                  error |-> IF is_ok(client.value) THEN None ELSE client.value[2],
                  connected_game |-> IF is_ok(client.value)
                                     THEN client.value[2].connected_game ELSE None,
                  client_type |-> IF is_ok(client.value)
                                  THEN client.value[2].client_type ELSE None,
                  peer |-> "open", inbox |-> <<>>, outbox |-> <<>>, sent |-> 0,
                  exists |-> IF ~ is_ok(Uuid_parse_str(path[2])) THEN "unasked"
                             ELSE IF ~ is_ok(game_exists[path[2]]) THEN "failed"
                             ELSE IF game_exists[path[2]][2] THEN "true" ELSE "false",
                  since |-> IF is_ok(client.value)
                            THEN Len(MovesOf(client.value[2].connected_game)) ELSE 0])
    /\ UNCHANGED <<providerVars, boardVars, sync>>

\* the client of connection i sends a frame
ClientSend(i) ==
    /\ conn[i].peer = "open"
    /\ conn[i].sent < MaxMsgs
    /\ \E frame \in Frames :
         conn' = [conn EXCEPT ![i].inbox = Append(@, frame), ![i].sent = @ + 1]
    /\ UNCHANGED <<providerVars, boardVars, sync>>

\* the client of connection i closes it
ClientClose(i) ==
    /\ conn[i].peer = "open"
    /\ conn' = [conn EXCEPT ![i].peer = "closed"]
    /\ UNCHANGED <<providerVars, boardVars, sync>>

\* one turn of while let Some(msg) = self.stream.next().await in
\* handle_messages: the next frame is handled and its response sent (a send
\* to a closed connection fails and is logged); with no frame left and the
\* connection closed the loop ends
HandleMessages(i) ==
    /\ conn[i].state = "open"
    /\ IF conn[i].inbox = <<>>
       THEN /\ conn[i].peer = "closed"
            /\ conn' = [conn EXCEPT ![i].state = "ended"]
            /\ UNCHANGED <<hash_map, redis, appends>>
       ELSE LET frame == Head(conn[i].inbox)
            IN  IF frame[1] # "Text"
                THEN /\ conn' = [conn EXCEPT ![i].inbox = Tail(@)]
                     /\ UNCHANGED <<hash_map, redis, appends>>
                ELSE \E r \in {handle_message(conn[i].connected_game, frame[2])} :
                       /\ (r.hash_map # hash_map \/ r.redis # redis) => appends < MaxMoves
                       /\ hash_map' = r.hash_map
                       /\ redis' = r.redis
                       /\ appends' = IF r.hash_map # hash_map \/ r.redis # redis
                                     THEN appends + 1 ELSE appends
                       /\ conn' = [conn EXCEPT
                                     ![i].inbox = Tail(@),
                                     ![i].outbox = IF conn[i].peer = "open"
                                                   THEN @ \o r.response ELSE @]
    /\ UNCHANGED <<provider, channels, hash_map_lock, channels_lock, poisoned, tasks, watch, pc, local,
                   ret, created, appended, writers, boardVars, sync>>

\* the servers of main.rs over one backend, no connection yet
InitServer ==
    /\ provider \in {"Cache", "Redis"}
    /\ ProviderNew
    /\ ClientNew
    /\ board = new_with_id("g1")
    /\ result = "None"
    /\ matrix = [idx \in Index |-> Vacant]
    /\ next_player = "X"
    /\ state = "None"

NextServer ==
    \/ RestCreateGame
    \/ RestAddMove
    \/ AcceptConnection
    \/ \E i \in 1 .. Len(conn) : ClientSend(i) \/ ClientClose(i) \/ HandleMessages(i)

SpecServer == InitServer /\ [][NextServer]_vars

-----------------------------------------------------------------------------
(* The state machine of a Board *)

EmptyMatrix == [idx \in Index |-> Vacant]

\* Board::new(): the Uuid is only ever copied and compared, one id stands for all
Init ==
    /\ board = new_with_id("g1")
    /\ result = "None"
    /\ matrix = EmptyMatrix
    /\ next_player = "X"
    /\ state = "None"
    /\ provider = "Cache"
    /\ ProviderNew
    /\ ClientNew

\* a caller hands a move to Board::insert_move
InsertMove ==
    \E self \in {board} :
      \E call \in {insert_move(self)} :
        \E coordinates \in Coord, player \in Player :
          \E r \in {call[coordinates, player]} :
            /\ r.result = "Ok" => Deviation(r.board.moves) <= MaxFree
            /\ board' = r.board
            /\ result' = r.result
            /\ UNCHANGED <<matrix, next_player, state, providerVars, clientVars>>

Next == InsertMove

Spec == Init /\ [][Next]_vars

\* the step of a play that goes on: insert_move accepted the move handed to it
AcceptedMove == result' = "Ok" /\ InsertMove

\* insert_move accepts some move of the plays explored: ENABLED AcceptedMove
CanMove ==
    LET validate == validate_move(board)
    IN  \E m \in MoveArgs :
            /\ Deviation(Append(board.moves, m)) <= MaxFree
            /\ validate[m] = "Ok"

\* a play that keeps making legal moves: the players hand a move the Board
\* accepts to insert_move as long as there is one.  The fairness condition is
\* WF_vars(AcceptedMove), with ENABLED AcceptedMove written as CanMove.
SpecPlay ==
    Init /\ [][Next]_vars /\ ([]<>(~ CanMove) \/ []<><<AcceptedMove>>_vars)

-----------------------------------------------------------------------------
(* check_matrix on its own: every 3x3 grid of Field values *)

InitMatrix ==
    /\ board = new_with_id("g1")
    /\ result = "None"
    /\ matrix \in [Index -> Field]
    /\ next_player \in Player
    /\ state = "None"
    /\ provider = "Cache"
    /\ ProviderNew
    /\ ClientNew

\* a caller hands the grid to check_matrix
CheckMatrix ==
    /\ state = "None"
    /\ state' = check_matrix(matrix, next_player)
    /\ UNCHANGED <<board, result, matrix, next_player, providerVars, clientVars>>

NextMatrix == CheckMatrix

SpecMatrix == InitMatrix /\ [][NextMatrix]_vars

-----------------------------------------------------------------------------
(* The rules of the game as the specification words them *)

\* the cells of the 9x9 grid
Cells == (0 .. 8) \X (0 .. 8)

\* the eight lines of a 3x3 grid: main diagonal, anti-diagonal, rows top to
\* bottom, columns left to right
Lines ==
    << << <<0,0>>, <<1,1>>, <<2,2>> >>, << <<2,0>>, <<1,1>>, <<0,2>> >>,
       << <<0,0>>, <<0,1>>, <<0,2>> >>, << <<1,0>>, <<1,1>>, <<1,2>> >>,
       << <<2,0>>, <<2,1>>, <<2,2>> >>,
       << <<0,0>>, <<1,0>>, <<2,0>> >>, << <<0,1>>, <<1,1>>, <<2,1>> >>,
       << <<0,2>>, <<1,2>>, <<2,2>> >> >>

LineOf(grid, i, p) == \A k \in 1 .. 3 : grid[Lines[i][k]] = Occupied(p)

OwnsLine(grid, p) == \E i \in 1 .. 8 : LineOf(grid, i, p)

NoVacant(grid) == \A idx \in Index : grid[idx] # Vacant

\* what check_matrix is to return for a grid
Verdict(grid, np) ==
    LET won == {i \in 1 .. 8 : \E p \in Player : LineOf(grid, i, p)}
    IN  IF won # {}
        THEN LET first == CHOOSE i \in won : \A j \in won : i <= j
             IN  Won(CHOOSE p \in Player : LineOf(grid, first, p))
        ELSE IF NoVacant(grid) THEN Draw
        ELSE InProgress(np)

SubBoardOf(c) == << c[1] \div 3, c[2] \div 3 >>
PositionIn(c) == << c[1] % 3, c[2] % 3 >>
Grid(sb) == board.data[sb].data
CellAt(c) == Grid(SubBoardOf(c))[PositionIn(c)]

\* the abstracted state of sub-board sb
Outcome(sb) ==
    IF OwnsLine(Grid(sb), "X") THEN Occupied("X")
    ELSE IF OwnsLine(Grid(sb), "O") THEN Occupied("O")
    ELSE IF NoVacant(Grid(sb)) THEN Disabled
    ELSE Vacant

Outcomes == Array2([sb \in Index |-> Outcome(sb)])

GameOver ==
    \/ OwnsLine(Outcomes, "X")
    \/ OwnsLine(Outcomes, "O")
    \/ NoVacant(Outcomes)

NoMoves == board.moves = <<>>
LastMove == board.moves[Len(board.moves)]

\* X when no move has been made, otherwise the opponent of the last mover
ToMove == IF NoMoves THEN "X" ELSE IF LastMove.player = "X" THEN "O" ELSE "X"

\* the sub-board the constraint rule dictates
Target == PositionIn(LastMove.coordinates)

Range(seq) == {seq[i] : i \in 1 .. Len(seq)}

\* the GameData the backend stores, by game id
StoredGames ==
    IF provider = "Cache" THEN hash_map
    ELSE [k \in DOMAIN redis |-> from_str(redis[k])]

History(id) == StoredGames[id].moves

NoDuplicates(seq) == \A i, j \in 1 .. Len(seq) : seq[i] = seq[j] => i = j

\* the game a watch channel was created for
GameOf(c) == watch[c].value.game_id

\* the moves appended to the game of channel c after subscribe_to_game returned
\* its Receiver
AppendedSince(c) ==
    IF GameOf(c) \in DOMAIN appended
    THEN {appended[GameOf(c)][i] : i \in watch[c].since + 1 .. Len(appended[GameOf(c)])}
    ELSE {}

\* no caller is inside a call, every forwarding task has subscribed and has
\* forwarded every message it received: nothing is left to run
Quiet ==
    /\ \A t \in Callers : pc[t] = "idle"
    /\ \A k \in 1 .. Len(tasks) : tasks[k].pc # "spawned" /\ tasks[k].stream = <<>>

IsPrefix(s, t) == Len(s) <= Len(t) /\ \A i \in 1 .. Len(s) : s[i] = t[i]

\* the Senders add_move of caller t sends to
SendersOf(t) ==
    IF local[t].game_id \in DOMAIN channels THEN Range(channels[local[t].game_id])
    ELSE {}

\* the callers that are inside add_move with their move in the stored history
InsideAddMove == {t \in Callers : pc[t] \in {"add_move_channels", "add_move_publish"}}


\* the remote-priority merge of section 4.4: the remote history, then the
\* local moves at the indices the remote history does not have
Reconciled(L, R) == R \o SubSeq(L, Len(R) + 1, Len(L))

\* the history before the call of sync_board that is running or ran last;
\* no history where the remote side had no record
RemoteBefore == IF sync.before.remote = <<>> THEN <<>> ELSE sync.before.remote[1]

\* the history the remote side stores for the synced game, none when absent
RemoteHistory == IF SyncRemote = <<>> THEN <<>> ELSE SyncRemote[1]

\* this step is one of RedisProvider::sync_board
SyncStep ==
    /\ provider = "Redis"
    /\ sync.pc # "idle"
    /\ sync'.pc # sync.pc \/ sync'.moves_to_upload # sync.moves_to_upload

\* this step ends a call of RedisProvider::sync_board
SyncEnds == provider = "Redis" /\ sync.pc # "idle" /\ sync'.pc = "idle"


-----------------------------------------------------------------------------
(* Claims *)

\* C1: whenever insert_move returns an InvalidMove error the Board is exactly as
\* before the call (move list, every cell of every sub-board, game id), and a
\* move the Board accepted before the rejected call is still accepted after it.
C1_RejectedMoveLeavesBoardUntouched ==
    [][result' \in InvalidMove => board' = board]_vars

\* a call was rejected on a Board that holds moves
C1_Witness == result \in InvalidMove /\ ~ NoMoves

\* C2: in every reachable Board a move whose player is not the player to move
\* (X with no moves, otherwise the opponent of the last mover) is rejected with
\* NotYourTurn; so a second move in a row by the same player is rejected.
C2_WrongPlayerIsNotYourTurn ==
    LET call == insert_move(board)
        wrong == IF ToMove = "X" THEN "O" ELSE "X"
    IN  \A c \in Coord :
            /\ call[c, wrong].result = "NotYourTurn"
            /\ ~ NoMoves => call[c, LastMove.player].result = "NotYourTurn"

\* a move was rejected with NotYourTurn on a Board that holds moves
C2_Witness == result = "NotYourTurn" /\ ~ NoMoves

\* C3 as claimed: on a Board that is Won or Draw every move, whatever its
\* player and coordinates, is rejected with GameEnded.
C3_AnyMoveIsGameEnded ==
    GameOver =>
        LET validate == validate_move(board)
        IN  \A m \in MoveArgs : validate[m] = "GameEnded"

\* C3 amended: on a Board that is Won or Draw every move of the player to move,
\* whatever its coordinates, is rejected with GameEnded, and every move of the
\* other player is rejected with NotYourTurn.
C3_MoveOfNextPlayerIsGameEnded ==
    GameOver =>
        LET call == insert_move(board)
            mover == ToMove
        IN  \A c \in Coord, p \in Player :
                call[c, p].result = IF p = mover THEN "GameEnded" ELSE "NotYourTurn"

\* a move was rejected with GameEnded
C3_Witness == result = "GameEnded" /\ GameOver

\* C4: in an in-progress Board a move of the player to move onto a Vacant cell
\* in a sub-board other than the dictated one, while the dictated sub-board is
\* undecided, is rejected with SubBoardNotActive; so is a move onto a Vacant
\* cell of a decided sub-board.
C4_OtherSubBoardIsNotActive ==
    (~ NoMoves /\ ~ GameOver) =>
        LET call == insert_move(board)
            outcomes == Outcomes
            target == Target
            mover == ToMove
        IN  \A c \in Cells :
                ( /\ CellAt(c) = Vacant
                  /\ \/ outcomes[target] = Vacant /\ SubBoardOf(c) # target
                     \/ outcomes[SubBoardOf(c)] # Vacant )
                => call[c, mover].result = "SubBoardNotActive"

\* a move was rejected with SubBoardNotActive while the constraint was lifted:
\* the cell it named lies in a decided sub-board
C4_Witness ==
    /\ result = "SubBoardNotActive"
    /\ ~ NoMoves
    /\ Outcome(Target) # Vacant

\* C5: in an in-progress Board a move of the player to move onto an Occupied
\* cell is rejected with FieldOccupied, inside or outside the active sub-board.
C5_OccupiedCellIsFieldOccupied ==
    ~ GameOver =>
        LET call == insert_move(board)
            mover == ToMove
        IN  \A c \in Cells :
                CellAt(c) # Vacant => call[c, mover].result = "FieldOccupied"

\* a move was rejected with FieldOccupied while the dictated sub-board was
\* undecided and empty: the cell it named lies outside the active sub-board
C5_Witness ==
    /\ result = "FieldOccupied"
    /\ ~ NoMoves
    /\ \A idx \in Index : Grid(Target)[idx] = Vacant

\* C6: in an in-progress Board a move of the player to move with a row or
\* column of 9 or more is rejected with OutOfBounds and indexes no sub-board
\* (the index would panic) and leaves the Board as it was.
C6_BeyondGridIsOutOfBounds ==
    ~ GameOver =>
        LET call == insert_move(board)
            mover == ToMove
        IN  \A c \in Coord :
                (c[1] >= 9 \/ c[2] >= 9) =>
                    /\ call[c, mover].result = "OutOfBounds"
                    /\ call[c, mover].board = board

\* a move was rejected with OutOfBounds on a Board that holds moves
C6_Witness == result = "OutOfBounds" /\ ~ NoMoves

\* C7: get_allowed_moves returns all 81 cells with no moves; otherwise, with T
\* the sub-board indexed by the position of the last move inside its sub-board,
\* exactly the Vacant cells of T if T is undecided and exactly the Vacant cells
\* of all undecided sub-boards if T is decided.
C7_AllowedMovesFollowConstraintRule ==
    LET allowed == Range(get_allowed_moves(board))
        outcomes == Outcomes
    IN  IF NoMoves THEN allowed = Cells
        ELSE LET target == Target
             IN  IF outcomes[target] = Vacant
                 THEN allowed = {c \in Cells : SubBoardOf(c) = target /\ CellAt(c) = Vacant}
                 ELSE allowed = {c \in Cells : /\ outcomes[SubBoardOf(c)] = Vacant
                                              /\ CellAt(c) = Vacant}

\* a move was accepted that sends the opponent to a decided sub-board, and the
\* opponent has cells to choose from
C7_Witness ==
    /\ result = "Ok"
    /\ Outcome(Target) # Vacant
    /\ get_allowed_moves(board) # <<>>

\* C8: check_matrix returns Won(P) for the owner P of the first complete line
\* in the scan order main diagonal, anti-diagonal, rows, columns; with no
\* complete line Draw if no cell is Vacant and InProgress(next_player)
\* otherwise.  Disabled cells complete no line and count as non-Vacant.
C8_CheckMatrixVerdict ==
    state # "None" => state = Verdict(matrix, next_player)

\* check_matrix decided a grid in which both players own a line
C8_Witness ==
    /\ state # "None"
    /\ OwnsLine(matrix, "X")
    /\ OwnsLine(matrix, "O")
    /\ \E idx \in Index : matrix[idx] = Disabled

\* C9: the abstracted board maps a sub-board to Occupied(P) if P owns a line of
\* it, to Disabled if nobody owns a line and no cell is Vacant, to Vacant
\* otherwise; get_state is the verdict of check_matrix on that board.
C9_AbstractedBoard ==
    LET abstracted == get_abstracted_board(board)
    IN  /\ DOMAIN abstracted = Index
        /\ \A sb \in Index :
              /\ \A p \in Player : OwnsLine(Grid(sb), p) => abstracted[sb] = Occupied(p)
              /\ (\A p \in Player : ~ OwnsLine(Grid(sb), p)) =>
                    abstracted[sb] = IF NoVacant(Grid(sb)) THEN Disabled ELSE Vacant
        /\ get_state(board) = Verdict(Outcomes, ToMove)

\* a Board with a won, a drawn and an undecided sub-board
C9_Witness ==
    /\ \E sb \in Index : Outcome(sb) = Disabled
    /\ \E sb \in Index : Outcome(sb)[1] = "Occupied"
    /\ \E sb \in Index : Outcome(sb) = Vacant

\* what get_state is to be after the last accepted move
C10_StateAfterMove ==
    ~ NoMoves =>
        LET s == get_state(board)
        IN  IF GameOver THEN s[1] \in {"Won", "Draw"}
            ELSE s = InProgress(IF LastMove.player = "X" THEN "O" ELSE "X")

\* C10: after each accepted move get_state is InProgress with the opponent of
\* the mover as next player, until a winning line or a full abstracted board is
\* reached; from then on get_state is Won or Draw (no move changes the Board).
C10_InProgressUntilDecided ==
    /\ [] C10_StateAfterMove
    /\ [][board' # board => ~ GameOver]_vars

\* a play reached a full abstracted board without a winning line
C10_Witness ==
    /\ result = "Ok"
    /\ get_state(board) = Draw


\* C11: every Board reached by legal moves, converted to GameData and replayed
\* by Board::from, is rebuilt without a rejected move and with the same game
\* id, the same move list, the same sub-board cells and the same get_state.
C11_RoundTrip ==
    result \in {"None", "Ok"} =>
        LET r == from(into(board))
        IN  /\ r.result = "Ok"
            /\ r.board.game_id = board.game_id
            /\ r.board.moves = board.moves
            /\ \A sb \in Index : r.board.data[sb].data = Grid(sb)
            /\ get_state(r.board) = get_state(board)

C11_Witness ==
    /\ result = "Ok"
    /\ GameOver
    /\ \E sb \in Index : Outcome(sb) = Disabled
    /\ from(into(board)).board.moves = board.moves

\* C12: on the in-memory backend a create_game with an id in use returns
\* GameExists and leaves every stored history as it was; with an unused id or
\* none it returns Ok(id) and stores an empty history under that id.
C12_CreateGameInMemory ==
    [][(provider = "Cache" /\ ret' # ret /\ ret'.op = "create_game") =>
          IF ret'.arg \in DOMAIN hash_map
          THEN ret'.value = Err("GameExists") /\ hash_map' = hash_map
          ELSE /\ is_ok(ret'.value)
               /\ ret'.arg # None => ret'.value[2] = ret'.arg
               /\ ret'.value[2] \notin DOMAIN hash_map
               /\ hash_map' = HashMap_insert(hash_map, ret'.value[2],
                                             GameData_new_with_id(ret'.value[2]))]_vars

\* C13: on the networked backend a create_game with an id in use returns
\* GameExists and leaves the remote history as it was.
C13_CreateGameNetworked ==
    [][(provider = "Redis" /\ ret'.op = "create_game" /\ ret'.arg \in DOMAIN redis
        /\ (ret' # ret \/ redis' # redis)) =>
          ret'.value = Err("GameExists") /\ redis' = redis]_vars

\* C14: add_move is an atomic, unconditional append.  The step of add_move that
\* appends puts exactly its move at the end of the stored history of its game,
\* whether or not a Board accepts the move, and changes no other game; apart
\* from create_game no other step changes a stored history, so with concurrent
\* callers no appended move is lost and none is stored twice.
C14_AppendStep ==
    StoredGames' # StoredGames =>
        \/ /\ appends' = appends + 1
           /\ DOMAIN StoredGames' = DOMAIN StoredGames
           /\ \E id \in DOMAIN StoredGames :
                /\ StoredGames' = [StoredGames EXCEPT
                                      ![id].moves = Append(@, StoreMove(appends + 1))]
        \/ appends' = appends /\ ret'.op = "create_game" /\ is_ok(ret'.value)

C14_AtomicAppend ==
    /\ [](\A id \in DOMAIN StoredGames : NoDuplicates(History(id)))
    /\ [][C14_AppendStep]_vars
    /\ [][(ret' # ret /\ ret'.op = "add_move" /\ is_ok(ret'.value)) =>
            \E t \in InsideAddMove :
                /\ pc'[t] = "idle"
                /\ local[t].game_id = ret'.arg
                /\ local[t].new_move \in Range(appended[ret'.arg])]_vars

\* two callers are inside add_move for the same game at once, both their moves
\* are stored, and no Board accepts the stored history
C14_Witness ==
    /\ InsideAddMove = Callers
    /\ local["a"].game_id = local["b"].game_id
    /\ Len(History(local["a"].game_id)) = 2
    /\ Range(History(local["a"].game_id)) = {local["a"].new_move, local["b"].new_move}
    /\ from(StoredGames[local["a"].game_id]).result = "Panic"

\* C15: on the in-memory backend, after any sequence of create_game and
\* add_move calls, get_games returns exactly the ids create_game returned,
\* game_exists is true exactly for them, get_game_data returns for each its id
\* and all moves appended to it in order, and KeyNotFound for every other id.
C15_CacheQueries ==
    (provider = "Cache" /\ watch = <<>>) =>
        /\ CacheProvider_get_games = Ok(created)
        /\ \A id \in GameIds :
             /\ CacheProvider_game_exists(id) = Ok(id \in created)
             /\ CacheProvider_get_game_data(id) =
                  IF id \in created
                  THEN Ok([moves |-> appended[id], game_id |-> id])
                  ELSE Err("KeyNotFound")

\* both ids were created and one of the games holds two moves
C15_Witness ==
    /\ provider = "Cache"
    /\ watch = <<>>
    /\ created = GameIds
    /\ \E id \in created : Len(appended[id]) = 2
    /\ \A t \in Callers : pc[t] = "idle"

\* C16: on every backend a subscribe_to_game for a game id that is not stored
\* returns an error, creates no watch channel, registers no Sender and spawns
\* no forwarding task.
C16_SubscribeToNothing ==
    [][/\ (ret' # ret /\ ret'.op = "subscribe_to_game"
           /\ ret'.arg \notin DOMAIN StoredGames) => ~ is_ok(ret'.value)
       /\ Len(watch') > Len(watch) =>
              watch'[Len(watch')].value.game_id \in DOMAIN StoredGames
       /\ channels' # channels => DOMAIN channels' \subseteq DOMAIN StoredGames
       /\ Len(tasks') > Len(tasks) =>
              tasks'[Len(tasks')].game_id \in DOMAIN StoredGames]_vars

\* C17: on every backend, a move appended after subscribe_to_game returned the
\* Receiver is eventually in the snapshot the channel holds; so it is there
\* once nothing is left to run.
C17_AppendedMoveArrives ==
    \A c \in 1 .. Len(watch) :
        (Quiet /\ watch[c].rx = "held") =>
            AppendedSince(c) \subseteq Range(watch[c].value.moves)

\* C18: a channel holds one snapshot; a send replaces it whether or not the
\* receiver has read the one before, a read takes the snapshot held and leaves
\* nothing older to read, and the sending step of add_move is enabled whatever
\* the receivers have read.
C18_SendReplaces ==
    /\ \A t \in Callers :
         (provider = "Cache" /\ pc[t] = "add_move_channels" /\ pc'[t] = "idle"
          /\ is_ok(ret'.value)) =>
             \A c \in SendersOf(t) :
                 watch'[c].value = local[t].new_game_data /\ watch'[c].changed
    /\ \A k \in 1 .. Len(tasks) :
         (tasks[k].pc = "listening" /\ tasks'[k].pc = "listening"
          /\ Len(tasks'[k].stream) < Len(tasks[k].stream)) =>
             /\ watch'[tasks[k].tx].value = from_str(Head(tasks[k].stream))
             /\ watch'[tasks[k].tx].changed
    /\ \A c \in 1 .. Len(watch) :
         watch'[c].read # watch[c].read =>
             watch'[c].read = <<watch[c].value>> /\ ~ watch'[c].changed

C18_LatestValue ==
    /\ [][C18_SendReplaces]_vars
    /\ [](\A t \in Callers :
            /\ pc[t] = "add_move_channels" => ENABLED CacheAddMoveSend(t)
            /\ pc[t] = "add_move_publish" => ENABLED RedisAddMovePublish(t))

\* a receiver subscribed to an empty game has read nothing, two snapshots were
\* sent to it, and its channel holds the second
C18_Witness ==
    \E c \in 1 .. Len(watch) :
        /\ provider = "Cache"
        /\ watch[c].rx = "held"
        /\ watch[c].since = 0
        /\ watch[c].read = <<>>
        /\ watch[c].changed
        /\ Len(watch[c].value.moves) = 2
        /\ Quiet

\* C19: on the in-memory backend an add_move that finds the Receiver of one
\* Sender dropped returns Ok, sends the snapshot to every other Sender of the
\* game and leaves the backend usable.
C19_DroppedReceiver ==
    [][\A t \in Callers :
         (provider = "Cache" /\ pc[t] = "add_move_channels" /\ pc'[t] = "idle"
          /\ \E c \in SendersOf(t) : watch[c].rx = "dropped") =>
             /\ ret'.value = Ok("()")
             /\ \A c \in SendersOf(t) :
                    watch[c].rx # "dropped" => watch'[c].value = local[t].new_game_data
             /\ poisoned' = {}]_vars

\* C20, the snapshots a receiver reads: with one writer each is an extension of
\* the one read before
C20_ReadsExtend ==
    \A c \in 1 .. Len(watch) :
        (Cardinality(writers') <= 1 /\ watch[c].read # <<>>
         /\ watch'[c].read # watch[c].read) =>
            IsPrefix(watch[c].read[1].moves, watch'[c].read[1].moves)

\* C20: with a single writer every subscriber sees the snapshots in the order
\* of the appends, each an extension of the one before, and once the writer
\* has stopped its channel holds the full stored history.
C20_SingleWriterOrder ==
    /\ [][C20_ReadsExtend]_vars
    /\ [](\A c \in 1 .. Len(watch) :
            (Cardinality(writers) <= 1 /\ Quiet /\ watch[c].rx = "held"
             /\ GameOf(c) \in DOMAIN StoredGames) =>
                watch[c].value = StoredGames[GameOf(c)])

\* C21: when a sync_board of the networked backend returns Ok and no other
\* client wrote to the game during the call, the Board's move list equals the
\* move list stored remotely for its game id, whatever the two histories were
\* before, the remote side without a record of the game included.
C21_SyncConverges ==
    [][(SyncEnds /\ is_ok(ret'.value) /\ ~ sync.others) =>
          /\ SyncGame \in DOMAIN redis'
          /\ board'.moves = from_str(redis'[SyncGame]).moves]_vars

C21_Witness ==
    /\ provider = "Redis"
    /\ sync.pc = "idle"
    /\ ret.op = "sync_board"
    /\ is_ok(ret.value)
    /\ ~ sync.others
    /\ sync.before.remote = <<>>
    /\ Len(sync.before.local) = MaxLocal
    /\ SyncRemote = <<board.moves>>

\* C22: a sync_board that no other client interferes with leaves, on both
\* sides, the remote history R followed by the moves of the local history L at
\* the indices R does not have; for 2 local moves and 1 remote move that is
\* [remote move 0, local move 1].
C22_RemotePriorityMerge ==
    [][(SyncEnds /\ ~ sync.others) =>
          /\ board'.moves = Reconciled(sync.before.local, RemoteBefore)
          /\ RemoteHistory' = Reconciled(sync.before.local, RemoteBefore)]_vars

\* C23: no step of sync_board alters or removes a move stored remotely: the
\* remote history before the step is a prefix of the one after it, and the
\* step leaves it unchanged when the local history of the call is not longer
\* than the remote one.
C23_RemoteKept ==
    [][SyncStep =>
          /\ IsPrefix(RemoteHistory, RemoteHistory')
          /\ Len(sync.before.local) <= Len(RemoteHistory) =>
                RemoteHistory' = RemoteHistory]_vars

\* C29: no call of sync_board, whatever the stored history and the local
\* Board, ends in an abort: it returns a value or a typed error.
C29_NoAbort == ret.op = "sync_board" => ret.value # Panic

\* C30: stored histories are append-only: a step of a backend operation
\* leaves every stored game stored, with its history before the step a prefix
\* of its history after it.
C30_AppendOnly ==
    [][\A id \in DOMAIN StoredGames :
          /\ id \in DOMAIN StoredGames'
          /\ IsPrefix(StoredGames[id].moves, StoredGames'[id].moves)]_vars

\* C28: once nothing is left to run, no Sender in the subscriber registry of
\* the in-memory backend and no forwarding task of the networked backend is
\* left whose Receiver has been dropped.
C28_SubscriptionReleased ==
    Quiet =>
        /\ \A id \in DOMAIN channels : \A c \in Range(channels[id]) :
               watch[c].rx # "dropped"
        /\ \A k \in 1 .. Len(tasks) :
               tasks[k].pc = "listening" => watch[tasks[k].tx].rx # "dropped"

\* C24: a step of the REST submit-move request or of a MakeMove message
\* extends a stored history only by a move that validate_move accepts on the
\* Board of that history.
C24_OnlyLegalMovesStored ==
    [][\A id \in GameIds :
          MovesOf(id)' # MovesOf(id) =>
             LET b == from([moves |-> MovesOf(id), game_id |-> id])
                 m == MovesOf(id)'[Len(MovesOf(id)')]
             IN  b.result = "Ok" /\ validate_move(b.board)[m] = "Ok"]_vars

\* C25: a session that has handled every frame it received has sent its
\* connection a state-update message for every move appended to its game
\* since the connection was accepted.
C25_SnapshotsForwarded ==
    \A i \in 1 .. Len(conn) :
        (conn[i].state = "open" /\ conn[i].peer = "open" /\ conn[i].inbox = <<>>) =>
            \A k \in conn[i].since + 1 .. Len(MovesOf(conn[i].connected_game)) :
                \E j \in 1 .. Len(conn[i].outbox) :
                    /\ conn[i].outbox[j][1] = "game_state"
                    /\ Len(conn[i].outbox[j][2].moves) >= k

\* the connection accepted in this step: its path names no Uuid and it is
\* refused with InvalidUuid, or the Uuid is not stored (or game_exists failed)
\* and it is closed with GameNotFound
C26_AcceptStep ==
    Len(conn') = Len(conn) + 1 =>
        LET c == conn'[Len(conn')]
        IN  /\ c.path[2] \notin GameIds => c.state = "refused" /\ c.error = "InvalidUuid"
            /\ c.exists = "false" <=>
                  (c.path[2] \in GameIds \ DOMAIN StoredGames /\ c.exists # "failed")
            /\ c.exists \in {"false", "failed"} =>
                  c.state = "closed" /\ c.error = "GameNotFound"

\* a connection refused or closed at its arrival stays so, and none of the
\* frames its client sends is taken from it
C26_NothingHandled ==
    \A i \in 1 .. Len(conn) :
        conn[i].state \in {"refused", "closed"} =>
            /\ conn'[i].state = conn[i].state
            /\ IsPrefix(conn[i].inbox, conn'[i].inbox)
            /\ conn'[i].outbox = <<>>

\* C26: a live connection whose path names a malformed game id is refused
\* with InvalidUuid, one whose id is not stored or whose existence check
\* fails is closed with GameNotFound; neither gets a session handler or a
\* subscription, and no frame of it is ever handled.
C26_RefusedConnection ==
    /\ [][C26_AcceptStep]_vars
    /\ [][C26_NothingHandled]_vars
    /\ [](\A i \in 1 .. Len(conn) :
             conn[i].state \in {"refused", "closed"} =>
                conn[i].connected_game = None /\ watch = <<>> /\ tasks = <<>>)

C26_Witness ==
    \E i \in 1 .. Len(conn) :
        /\ conn[i].state = "closed"
        /\ conn[i].error = "GameNotFound"
        /\ conn[i].exists = "false"
        /\ StoredGames # HashMap_new
        /\ Len(conn[i].inbox) = MaxMsgs

\* the session of connection i takes a frame in this step: it stays open,
\* and while the connection is open a Ping adds exactly one Pong and a text
\* that is no IncommingMessage exactly one Error to what was sent
C27_FrameStep(i) ==
    Len(conn'[i].inbox) < Len(conn[i].inbox) =>
        LET frame == Head(conn[i].inbox)
        IN  /\ conn'[i].state = "open"
            /\ conn'[i].inbox = Tail(conn[i].inbox)
            /\ (frame[1] = "Text" /\ conn[i].peer = "open") =>
                  /\ frame[2] = Ping =>
                        conn'[i].outbox = Append(conn[i].outbox, Pong)
                  /\ frame[2][1] \notin {"ping", "make_move"} =>
                        conn'[i].outbox =
                            Append(conn[i].outbox,
                                   ErrorMessage("CouldNotSerialize", frame[2]))

\* C27: in an accepted session every frame is taken without ending the
\* session, a Ping is answered with exactly one Pong and an unparseable text
\* with an Error; the session ends only when its connection is closed.
C27_SessionAnswers ==
    [][\A i \in 1 .. Len(conn) :
          /\ C27_FrameStep(i)
          /\ (conn[i].state = "open" /\ conn'[i].state # "open") =>
                conn[i].peer = "closed" /\ conn[i].inbox = <<>>]_vars

C27_Witness ==
    \E i \in 1 .. Len(conn) :
        /\ conn[i].state = "open"
        /\ conn[i].inbox = <<>>
        /\ conn[i].outbox = <<ErrorMessage("CouldNotSerialize", <<"pong">>), Pong>>

\* C31: from an empty Board the first seven moves of get_sample_game are
\* accepted in their order; after the seventh, (3,3)X, the abstracted cell of
\* sub-board (1,1) is Occupied(X), the other eight are Vacant, and get_state
\* is InProgress with O to move.
C31_SampleGameSeventhMove ==
    /\ \A k \in 1 .. 7 :
          board.moves = SubSeq(get_sample_game, 1, k - 1) =>
              insert_move(board)[get_sample_game[k].coordinates,
                                 get_sample_game[k].player].result = "Ok"
    /\ board.moves = SubSeq(get_sample_game, 1, 7) =>
          /\ get_abstracted_board(board) =
                [idx \in Index |-> IF idx = <<1, 1>> THEN Occupied("X") ELSE Vacant]
          /\ get_state(board) = InProgress("O")

\* the seventh move of get_sample_game was accepted
C31_Witness ==
    /\ result = "Ok"
    /\ board.moves = SubSeq(get_sample_game, 1, 7)

\* an accepted insert_move: the move is the new last element of the move
\* list, its cell alone changed, to Occupied by the mover
C32_AcceptedStep ==
    result' = "Ok" =>
        /\ Len(board'.moves) = Len(board.moves) + 1
        /\ SubSeq(board'.moves, 1, Len(board.moves)) = board.moves
        /\ board'.game_id = board.game_id
        /\ LET m == board'.moves[Len(board'.moves)]
           IN  \A c \in Cells :
                   board'.data[SubBoardOf(c)].data[PositionIn(c)] =
                       IF c = m.coordinates THEN Occupied(m.player) ELSE CellAt(c)

\* C32: a successful insert_move(c, p) appends exactly Move(c, p), sets the
\* cell at c to Occupied(p) and changes nothing else; so in every reachable
\* Board a cell is Occupied(p) exactly when one move of the list is at that
\* cell and is by p, no two moves share a cell, and no cell is Disabled.
C32_InsertMoveFrame ==
    /\ [][C32_AcceptedStep]_vars
    /\ [](\A c \in Cells :
             LET at == {i \in 1 .. Len(board.moves) : board.moves[i].coordinates = c}
             IN  /\ Cardinality(at) <= 1
                 /\ CellAt(c) # Disabled
                 /\ \A p \in Player :
                       CellAt(c) = Occupied(p) <=>
                           \E i \in at : board.moves[i].player = p)

\* the last move of the longest play was accepted
C32_Witness ==
    /\ result = "Ok"
    /\ board.moves = o_win_game

\* what the Board accepts now: only moves into undecided sub-boards, and none
\* once get_state is Won or Draw
C37_AcceptsUndecidedOnly ==
    LET validate == validate_move(board)
        abstracted == get_abstracted_board(board)
        s == get_state(board)
    IN  \A m \in MoveArgs :
            validate[m] = "Ok" =>
                /\ m.coordinates \in Cells
                /\ abstracted[SubBoardOf(m.coordinates)] = Vacant
                /\ Outcome(SubBoardOf(m.coordinates)) = Vacant
                /\ is_in_progress(s)

\* an accepted insert_move finds the game in progress and leaves every decided
\* sub-board and its abstracted state as they were; a rejected one leaves the
\* whole Board, so once get_state is Won or Draw it stays what it is
C37_DecidedStays ==
    IF result' = "Ok"
    THEN LET before == get_abstracted_board(board)
             after == get_abstracted_board(board')
         IN  /\ is_in_progress(get_state(board))
             /\ \A sb \in Index :
                   before[sb] # Vacant =>
                       after[sb] = before[sb] /\ board'.data[sb] = board.data[sb]
    ELSE /\ result' \in InvalidMove
         /\ board' = board

\* C37: decided outcomes are final.  No move is accepted into a sub-board
\* whose abstracted state is Occupied or Disabled and that state never
\* changes; once get_state is Won or Draw every insert_move is rejected and
\* get_state stays; no sub-board and no abstracted board holds complete lines
\* of both players.
C37_DecidedIsFinal ==
    /\ [] C37_AcceptsUndecidedOnly
    /\ [][C37_DecidedStays]_vars
    /\ [](\A sb \in Index : ~ (OwnsLine(Grid(sb), "X") /\ OwnsLine(Grid(sb), "O")))
    /\ [] ~ (OwnsLine(get_abstracted_board(board), "X")
             /\ OwnsLine(get_abstracted_board(board), "O"))

\* a move was rejected after the end of a game that holds a drawn sub-board
\* and a won sub-board with Vacant cells left
C37_Witness ==
    /\ GameOver
    /\ result \in InvalidMove
    /\ \E sb \in Index : Outcome(sb)[1] = "Occupied" /\ ~ NoVacant(Grid(sb))
    /\ \E sb \in Index : Outcome(sb) = Disabled

\* C38: no stuck game.  While get_state is InProgress get_allowed_moves is
\* not empty, and insert_move accepts a move of the player to move exactly on
\* the cells get_allowed_moves returns.
C38_NoStuckGame ==
    is_in_progress(get_state(board)) =>
        LET allowed == get_allowed_moves(board)
            call == insert_move(board)
        IN  /\ Len(allowed) > 0
            /\ get_next_player(board) = ToMove
            /\ \A c \in Coord :
                  call[c, ToMove].result = "Ok" <=> contains(allowed, c)

\* a game in progress whose last move sent the player to a decided sub-board
C38_Witness ==
    /\ ~ NoMoves
    /\ result = "Ok"
    /\ ~ GameOver
    /\ Outcome(Target) # Vacant

\* the cells that hold a move are as many as the moves, so a Board holds at
\* most 81
C39_MovesFillCells ==
    /\ Len(board.moves) = Cardinality({c \in Cells : CellAt(c) # Vacant})
    /\ Len(board.moves) <= 81

\* C39: every game terminates.  Each accepted move fills one more of the 81
\* cells, and a play that keeps making legal moves reaches a Board whose
\* get_state is Won or Draw (or leaves the plays explored).
C39_GameTerminates ==
    /\ [] C39_MovesFillCells
    /\ [][result' = "Ok" => Len(board'.moves) = Len(board.moves) + 1]_vars
    /\ <>(~ is_in_progress(get_state(board)) \/ Deviation(board.moves) > 0)

\* a play ended after 54 moves
C39_Witness ==
    /\ Len(board.moves) = 54
    /\ get_state(board)[1] = "Won"

\* C33: on the in-memory backend an add_move for a game id that is not stored
\* returns KeyNotFound, creates no entry, changes no stored history and sends
\* no snapshot to any subscriber.
C33_AddMoveToNothing ==
    [][(provider = "Cache" /\ ret' # ret /\ ret'.op = "add_move"
        /\ ret'.arg \notin DOMAIN hash_map) =>
          /\ ret'.value = Err("KeyNotFound")
          /\ hash_map' = hash_map
          /\ channels' = channels
          /\ watch' = watch]_vars

\* C34: on the in-memory backend a subscription misses no update: once every
\* call has returned, the channel of a Receiver that subscribe_to_game
\* returned holds the stored GameData of its game, however the calls of
\* subscribe_to_game and add_move were interleaved.
C34_SubscriptionSeeded ==
    (provider = "Cache" /\ poisoned = {} /\ \A t \in Callers : pc[t] = "idle") =>
        \A c \in 1 .. Len(watch) :
            watch[c].rx = "held" => watch[c].value = hash_map[GameOf(c)]

\* C35: on the networked backend the snapshots published on the channel of a
\* game are in append order: of two snapshots a subscribed connection received
\* one after the other, the later extends the earlier (no create_game having
\* replaced the history the callers appended to).
C35_PublishedInAppendOrder ==
    \A k \in 1 .. Len(tasks) :
        (/\ tasks[k].game_id \in DOMAIN redis
         /\ tasks[k].game_id \in DOMAIN appended
         /\ History(tasks[k].game_id) = appended[tasks[k].game_id]) =>
            \A i \in 1 .. Len(tasks[k].stream) - 1 :
                IsPrefix(from_str(tasks[k].stream[i]).moves,
                         from_str(tasks[k].stream[i + 1]).moves)

\* C36: a sync_board that ran while other clients appended to the remote game
\* (the game being stored before the call, so that nobody created it
\* meanwhile) and that returned Ok leaves the Board's move list equal to the
\* move list stored remotely.
C36_SyncBesideAddMove ==
    [][(SyncEnds /\ is_ok(ret'.value) /\ sync.before.remote # <<>>) =>
          board'.moves = RemoteHistory']_vars

\* C40: the in-memory backend is deadlock-free: under any interleaving of
\* add_move, subscribe_to_game, create_game, game_exists, get_game_data and
\* get_games calls every call that was made comes to its end (it returns, or
\* its thread unwinds in the panic of a failed send), because no caller waits
\* for the lock of hash_map while it holds the lock of channels: channels is
\* locked by add_move while it holds hash_map and by subscribe_to_game after
\* it released hash_map
C40_LockOrder ==
    \A t \in Callers :
        /\ channels_lock = t => pc[t] = "channels_locked"
        /\ hash_map_lock = t => /\ pc[t] \in {"lock_channels", "channels_locked"}
                                /\ local[t].op = "add_move"
        /\ (pc[t] = "channels_locked" /\ local[t].op = "subscribe_to_game")
              => hash_map_lock # t

C40_DeadlockFree ==
    /\ [] C40_LockOrder
    /\ \A t \in Callers : (pc[t] # "idle") ~> (pc[t] = "idle")

\* subscribe_to_game waits at channels.lock() while an add_move holds both
\* locks
C40_Witness ==
    \E t, u \in Callers :
        /\ pc[t] = "lock_channels" /\ local[t].op = "subscribe_to_game"
        /\ pc[u] = "channels_locked" /\ local[u].op = "add_move"
        /\ hash_map_lock = u /\ channels_lock = u

=============================================================================
